---- MODULE Spec2Model ----
(***************************************************************************)
(* Trade reconstruction engine of the TradeTrace plugin: the five variant  *)
(* processors (OKX futures, Binance USDT-margined, coin-margined, spot and *)
(* margin), their trade builders and the timeline aggregator.              *)
(*                                                                         *)
(* Numbers.  JavaScript numbers are modelled as exact extended rationals   *)
(* [n, d]: d > 0 is the fraction n/d in lowest terms, 1/0 and -1/0 are the *)
(* infinities and 0/0 is NaN, with the IEEE rules for arithmetic and       *)
(* comparison (rounding and the sign of zero are not modelled).            *)
(* Sizes are counted in units of 1e-9, so the floating point tolerance of  *)
(* the source (1e-9) is one unit.  Time is counted in ticks of 30 000 ms,  *)
(* so the merge window of the source (60 000 ms) is two ticks.             *)
(***************************************************************************)
EXTENDS Integers, Sequences, FiniteSets, TLC

----------------------------------------------------------------------------
(* Bounds of the model *)

MaxFills == 3     \* fills in one batch
MaxPx == 2        \* prices 1..MaxPx
MaxSz == 3        \* fill sizes 1..MaxSz (contracts or coins, units of 1e-9)
MaxShuffledTs == 1    \* shuffled batches: timestamps 0..MaxShuffledTs
MaxShuffledId == 2    \* shuffled batches: fill ids 1..MaxShuffledId
MaxShuffledSz == 2    \* shuffled batches: fill sizes 1..MaxShuffledSz
MaxFundingFills == 4  \* funding batches: fills in one batch
MaxBills == 1         \* funding batches: bills in one batch
MaxBillTs == 5        \* funding batches: bill timestamps 0..MaxBillTs
MaxMalformedSz == 3   \* malformed batches: fill sizes 0, 2..MaxMalformedSz
MaxIncrementalFills == 3  \* incremental batches: fills in the two calls together
MaxIncrementalId == 2     \* incremental batches: fill ids 1..MaxIncrementalId
MaxRiskFills == 3     \* position risks: fills in one batch
MaxRisks == 2         \* position risks: snapshots in one batch
MaxSideFills == 3     \* position sides: fills in one batch
MaxSyncFills == 4     \* syncs: fills in the exchange's history
MaxSyncs == 2         \* syncs: calls of syncTrades
MaxNoteTs == 2        \* notes: entry timestamps 1..MaxNoteTs
MaxNoteItems == 2     \* notes: timeline entries in one note
MaxParsed == 2        \* parsers: integer parts -MaxParsed..MaxParsed
MaxEvents == 3        \* event lists: events in one list
MaxEventTs == 2       \* event lists: timestamps 0..MaxEventTs
MaxEventId == 2       \* event lists: trade ids 1..MaxEventId
MaxEventSz == 2       \* event lists: sizes 0..MaxEventSz

----------------------------------------------------------------------------
(* JavaScript numbers *)

Abs(i) == IF i < 0 THEN -i ELSE i

Sign(i) == IF i < 0 THEN -1 ELSE IF i > 0 THEN 1 ELSE 0

RECURSIVE GCD(_, _)
GCD(a, b) == IF b = 0 THEN a ELSE GCD(b, a % b)

Norm(n, d) ==
    IF d = 0 THEN [n |-> Sign(n), d |-> 0]
    ELSE LET g == GCD(Abs(n), Abs(d))
         IN  [n |-> (Sign(d) * n) \div g, d |-> Abs(d) \div g]

Num(i) == [n |-> i, d |-> 1]

Zero == Num(0)

NaN == [n |-> 0, d |-> 0]

IsNaN(a) == a.n = 0 /\ a.d = 0

IsInf(a) == a.n # 0 /\ a.d = 0

FNeg(a) == [n |-> -a.n, d |-> a.d]

FAdd(a, b) ==
    IF IsInf(a) /\ IsInf(b) THEN (IF a.n = b.n THEN a ELSE NaN)
    ELSE Norm(a.n * b.d + b.n * a.d, a.d * b.d)

FSub(a, b) == FAdd(a, FNeg(b))

FMul(a, b) == Norm(a.n * b.n, a.d * b.d)

FDiv(a, b) == Norm(a.n * b.d, a.d * b.n)

FLt(a, b) ==
    /\ ~IsNaN(a)
    /\ ~IsNaN(b)
    /\ IF IsInf(a) /\ IsInf(b) THEN a.n < b.n ELSE a.n * b.d < b.n * a.d

FLe(a, b) ==
    /\ ~IsNaN(a)
    /\ ~IsNaN(b)
    /\ IF IsInf(a) /\ IsInf(b) THEN a.n <= b.n ELSE a.n * b.d <= b.n * a.d

FGt(a, b) == FLt(b, a)

\* the first argument whatever the second: a reduction that is not clamped,
\* what C14 rules out
FMin_Unclamped(a, b) == a

\* Math.min: NaN when either argument is NaN
FMin(a, b) == IF IsNaN(a) \/ IsNaN(b) THEN NaN ELSE IF FLe(a, b) THEN a ELSE b

\* Math.abs
FAbs(a) == [n |-> Abs(a.n), d |-> a.d]

----------------------------------------------------------------------------
(* Raw numeric strings and their parsing *)

\* a numeric field of a batch as the exchange sends it: an integer literal, or
\* text that does not parse; the parsers below are the parsers on these fields
Str(i) == [ok |-> TRUE, v |-> i]

Garbage == [ok |-> FALSE, v |-> 0]

\* parseFloat(String(value))
parseFloat(value) == IF value.ok THEN Num(value.v) ELSE NaN

\* SafeParsers.float(value, fallback)
SafeParsersFloat(value, fallback) ==
    LET parsed == parseFloat(value)
    IN  IF IsNaN(parsed) THEN fallback ELSE parsed

\* SafeParsers.integer(value, fallback) and parseInt(value) on the (always
\* well-formed) timestamps
SafeParsersInteger(value, fallback) == IF value.ok THEN value.v ELSE fallback

parseInt(value) == value.v

\* String.prototype.toLowerCase on the position-side strings of the model
toLowerCase(s) ==
    CASE s = "LONG" -> "long"
      [] s = "SHORT" -> "short"
      [] s = "BOTH" -> "both"
      [] OTHER -> s

----------------------------------------------------------------------------
(* SafeParsers on any argument: string, number, undefined or null *)

PosInf == [n |-> 1, d |-> 0]

NegInf == [n |-> -1, d |-> 0]

IsFinite(a) == a.d # 0

\* the number i, or the number half a unit further from zero
Decimal(i, half) ==
    IF ~half THEN Num(i)
    ELSE IF i < 0 THEN Norm(2 * i - 1, 2) ELSE Norm(2 * i + 1, 2)

Undefined == [type |-> "undefined"]

Null == [type |-> "null"]

\* the texts of the model: a decimal literal ("2", "-1.5"), a decimal literal
\* followed by other characters ("2px"), text without a leading number
\* ("", "abc", "NaN"), "Infinity" and "-Infinity", a literal with an exponent
\* beyond the double range ("2e999"), a literal of 400 digits
DecimalText(i, half) == [form |-> "decimal", int |-> i, half |-> half, sign |-> Sign(i)]

PrefixedText(i) == [form |-> "prefixed", int |-> i, half |-> FALSE, sign |-> Sign(i)]

GarbageText == [form |-> "garbage", int |-> 0, half |-> FALSE, sign |-> 0]

InfinityText(sign) == [form |-> "infinity", int |-> 0, half |-> FALSE, sign |-> sign]

ExponentText(i) == [form |-> "exponent", int |-> i, half |-> FALSE, sign |-> Sign(i)]

LongDigitsText(sign) == [form |-> "digits", int |-> 0, half |-> FALSE, sign |-> sign]

\* String(value) of a number
NumberToString(num) ==
    CASE IsNaN(num) -> GarbageText
      [] IsInf(num) -> InfinityText(num.n)
      [] num.d = 1 -> DecimalText(num.n, FALSE)
      [] OTHER -> DecimalText((num.n - Sign(num.n)) \div 2, TRUE)

\* String(value)
StringOf(value) ==
    IF value.type = "number" THEN NumberToString(value.num) ELSE value.text

\* parseInt(text, 10): the leading integer literal, NaN without one
ParseIntText(text) ==
    CASE text.form \in {"decimal", "prefixed", "exponent"} -> Num(text.int)
      [] text.form = "digits" -> [n |-> text.sign, d |-> 0]
      [] OTHER -> NaN

\* parseFloat(text): the leading decimal literal, NaN without one
ParseFloatText(text) ==
    CASE text.form = "decimal" -> Decimal(text.int, text.half)
      [] text.form = "prefixed" -> Num(text.int)
      [] text.form = "exponent" -> [n |-> text.sign, d |-> IF text.sign = 0 THEN 1 ELSE 0]
      [] text.form \in {"infinity", "digits"} -> [n |-> text.sign, d |-> 0]
      [] OTHER -> NaN

\* isNaN(parsed) ? fallback : parsed
OrFallback(parsed, fallback) == IF IsNaN(parsed) THEN fallback ELSE parsed

\* SafeParsers.integer
SafeParsers_integer(value, fallback) ==
    IF value.type \in {"undefined", "null"} THEN fallback
    ELSE OrFallback(ParseIntText(StringOf(value)), fallback)

\* SafeParsers.float
SafeParsers_float(value, fallback) ==
    IF value.type \in {"undefined", "null"} THEN fallback
    ELSE OrFallback(ParseFloatText(StringOf(value)), fallback)

----------------------------------------------------------------------------
(* Constants of the source *)

FLOATING_POINT_TOLERANCE == 1     \* 1e-9, in size units of 1e-9

mergeWindowMs == 2                \* 60000 ms, in ticks of 30000 ms

DefaultContractValueUsd == 100    \* coin-margined fallback contract value

Tolerance == Num(FLOATING_POINT_TOLERANCE)

----------------------------------------------------------------------------
(* Sequences *)

RECURSIVE SeqSum(_)
SeqSum(s) == IF s = <<>> THEN 0 ELSE Head(s) + SeqSum(Tail(s))

Last(s) == s[Len(s)]

Contains(s, x) == \E i \in 1..Len(s) : s[i] = x

\* lexicographic order on sequences of integers (string comparison of the
\* comma-joined ids)
RECURSIVE LexLess(_, _)
LexLess(a, b) ==
    IF b = <<>> THEN FALSE
    ELSE IF a = <<>> THEN TRUE
    ELSE IF Head(a) # Head(b) THEN Head(a) < Head(b)
    ELSE LexLess(Tail(a), Tail(b))

----------------------------------------------------------------------------
(* Array.prototype.sort: a stable sort under a comparator *)

\* OKX: (a, b) => ts difference, then tradeId.localeCompare
OkxFillBefore(a, b) ==
    LET tsDiff == SafeParsersInteger(a.ts, 0) - SafeParsersInteger(b.ts, 0)
    IN  IF tsDiff # 0 THEN tsDiff < 0 ELSE a.tradeId < b.tradeId

\* Binance processors: (a, b) => ts difference only
BinanceFillBefore(a, b) == parseInt(a.ts) - parseInt(b.ts) < 0

\* TimelineUtils: (a, b) => timestamp difference, then tradeId.localeCompare
EventBefore(a, b) ==
    IF a.timestamp # b.timestamp THEN a.timestamp < b.timestamp
    ELSE LexLess(a.tradeId, b.tradeId)

\* the comparator handed to sort, by the name of its call site
Before(order, a, b) ==
    CASE order = "okxFill" -> OkxFillBefore(a, b)
      [] order = "binanceFill" -> BinanceFillBefore(a, b)
      [] order = "event" -> EventBefore(a, b)

StableSort(s, order) ==
    LET rank(i) == Cardinality({j \in 1..Len(s) :
                        \/ Before(order, s[j], s[i])
                        \/ (~Before(order, s[i], s[j]) /\ j < i)}) + 1
    IN  [k \in 1..Len(s) |-> s[CHOOSE i \in 1..Len(s) : rank(i) = k]]

----------------------------------------------------------------------------
(* Timeline events and their aggregation *)

\* e.fee || 0
OrZero(x) == IF IsNaN(x) THEN Zero ELSE x

NewEvent(fill, timestamp, action, size, price, fee, notes) ==
    [timestamp |-> timestamp, action |-> action, size |-> size, price |-> price,
     tradeId |-> <<fill.tradeId>>, orderId |-> <<fill.ordId>>,
     fee |-> fee, feeCcy |-> fill.feeCcy, notes |-> notes]

RECURSIVE GroupTotal(_, _)
GroupTotal(group, what) ==
    IF group = <<>> THEN Zero
    ELSE LET e == Head(group)
             v == CASE what = "value" -> FMul(e.price, e.size)
                    [] what = "size" -> e.size
                    [] what = "fee" -> OrZero(e.fee)
                    [] what = "rawfee" -> e.fee
         IN  FAdd(v, GroupTotal(Tail(group), what))

RECURSIVE JoinIds(_, _)
JoinIds(group, field) ==
    IF group = <<>> THEN <<>>
    ELSE (IF field = "tradeId" THEN Head(group).tradeId ELSE Head(group).orderId)
         \o JoinIds(Tail(group), field)

\* a merged event with the action of its first member: what C30 rules out
mergedEvent_FirstAction(group, totalVal, totalSz, totalFee) ==
    [group[1] EXCEPT
       !.price = IF FGt(totalSz, Zero) THEN FDiv(totalVal, totalSz) ELSE Zero,
       !.size = totalSz, !.fee = totalFee,
       !.tradeId = JoinIds(group, "tradeId"),
       !.orderId = JoinIds(group, "orderId"),
       !.notes = ""]

\* mergeGroup: the merged event, given the totals of the group
mergedEvent(group, totalVal, totalSz, totalFee) ==
    [group[1] EXCEPT
       !.action = IF \E i \in 1..Len(group) : group[i].action = "OPEN" THEN "OPEN"
                  ELSE IF \E i \in 1..Len(group) : group[i].action = "CLOSE"
                  THEN "CLOSE"
                  ELSE @,
       !.price = IF FGt(totalSz, Zero) THEN FDiv(totalVal, totalSz) ELSE Zero,
       !.size = totalSz, !.fee = totalFee,
       !.tradeId = JoinIds(group, "tradeId"),
       !.orderId = JoinIds(group, "orderId"),
       !.notes = ""]

\* TimelineUtils.mergeGroup
mergeGroup(group) ==
    IF Len(group) = 1 THEN group[1]
    ELSE mergedEvent(group, GroupTotal(group, "value"), GroupTotal(group, "size"),
                     GroupTotal(group, "fee"))

\* a window that takes a gap of mergeWindowMs in: what C29 rules out
canMerge_Inclusive(prev, current) ==
    /\ (current.timestamp - prev.timestamp) <= mergeWindowMs
    /\ \/ current.action = prev.action
       \/ (prev.action = "OPEN" /\ current.action = "ADD")
       \/ (prev.action = "ADD" /\ current.action = "OPEN")
       \/ (prev.action = "REDUCE" /\ current.action = "CLOSE")
       \/ (prev.action = "CLOSE" /\ current.action = "REDUCE")

\* aggregateEvents: may the current event join the group that ends with prev
canMerge(prev, current) ==
    /\ (current.timestamp - prev.timestamp) < mergeWindowMs
    /\ \/ current.action = prev.action
       \/ (prev.action = "OPEN" /\ current.action = "ADD")
       \/ (prev.action = "ADD" /\ current.action = "OPEN")
       \/ (prev.action = "REDUCE" /\ current.action = "CLOSE")
       \/ (prev.action = "CLOSE" /\ current.action = "REDUCE")

\* the grouping loop of TimelineUtils.aggregateEvents, from index i on
RECURSIVE aggregateLoop(_, _, _, _)
aggregateLoop(sortedEvents, i, currentGroup, aggregated) ==
    IF i > Len(sortedEvents) THEN Append(aggregated, mergeGroup(currentGroup))
    ELSE IF canMerge(Last(currentGroup), sortedEvents[i])
    THEN aggregateLoop(sortedEvents, i + 1, Append(currentGroup, sortedEvents[i]),
                       aggregated)
    ELSE aggregateLoop(sortedEvents, i + 1, <<sortedEvents[i]>>,
                       Append(aggregated, mergeGroup(currentGroup)))

\* aggregateEvents: the grouping of the sorted events
aggregateSorted(sortedEvents) ==
    aggregateLoop(sortedEvents, 2, <<sortedEvents[1]>>, <<>>)

\* TimelineUtils.aggregateEvents(executionEvents), default merge window
aggregateEvents(executionEvents) ==
    IF Len(executionEvents) < 2 THEN executionEvents
    ELSE aggregateSorted(StableSort(executionEvents, "event"))

----------------------------------------------------------------------------
(* The standardized trade *)

\* the object literal shared by the four trade initialisers; an optional
\* number is <<>> while it is undefined and <<value>> once it is set
BlankTrade(id, symbol, direction, entryTime, pnlCcy, feeCcy, valCcy) ==
    [id |-> id, symbol |-> symbol, direction |-> direction, status |-> "open",
     entryTime |-> entryTime, exitTime |-> 0, durationMs |-> 0,
     totalSize |-> Zero, totalValue |-> Zero,
     averageEntryPrice |-> Zero, averageExitPrice |-> Zero,
     realizedPnl |-> Zero, totalCommission |-> Zero, totalFundingFee |-> Zero,
     netPnl |-> Zero, pnlPercentage |-> Zero,
     timeline |-> <<>>, tradeIds |-> <<>>, orderIds |-> <<>>,
     _currentPositionSize |-> Zero, _closingSizeAccumulator |-> Zero,
     _closingValueAccumulator |-> Zero, _rawFills |-> <<>>, _rawBills |-> <<>>,
     currentNotionalValue |-> <<>>,
     pnlCurrency |-> pnlCcy, feeCurrency |-> feeCcy, valueCurrency |-> valCcy]

\* an order id pushed for every fill: what C27 rules out
PushUnique_Always(ids, id) == Append(ids, id)

\* orderIds.includes(ordId) || orderIds.push(ordId)
PushUnique(ids, id) == IF Contains(ids, id) THEN ids ELSE Append(ids, id)

----------------------------------------------------------------------------
(* OkxTradeBuilder *)

\* processFills: instId.includes('-USD-') && !instId.includes('-USDT-')
OkxIsInverse(instId) == instId = "BTC-USD-SWAP"

OkxDetermineDirection(fill) ==
    LET posSide == toLowerCase(fill.posSide)
    IN  IF posSide = "long" THEN "long"
        ELSE IF posSide = "short" THEN "short"
        ELSE IF toLowerCase(fill.side) = "buy" THEN "long" ELSE "short"

OkxInitializeTrade(fill, isInverse) ==
    LET ts == SafeParsersInteger(fill.ts, 0)
    IN  BlankTrade(<<fill.instId, fill.posSide, ts>>, fill.instId,
                   OkxDetermineDirection(fill), ts,
                   IF isInverse THEN fill.feeCcy ELSE "USDT",
                   fill.feeCcy,
                   IF isInverse THEN "USD" ELSE "USDT")

OkxDetermineAction(fill, trade) ==
    LET isLong == trade.direction = "long"
        isBuy == toLowerCase(fill.side) = "buy"
        isHooksIncrease == (isLong /\ isBuy) \/ (~isLong /\ ~isBuy)
    IN  IF isHooksIncrease
        THEN (IF Len(trade.timeline) = 0 THEN "OPEN" ELSE "ADD")
        ELSE "REDUCE"

\* updateState for an OPEN or ADD event: the cost the event adds
OkxAddedCost(event, isInverse) ==
    IF isInverse
    THEN (IF FGt(event.price, Zero) THEN FDiv(event.size, event.price) ELSE Zero)
    ELSE FMul(event.size, event.price)

\* updateState for an OPEN or ADD event, given the new totals
OkxIncreaseTo(trade, event, isInverse, newTotalCost, newTotalSize) ==
    [trade EXCEPT !.averageEntryPrice =
                      IF FGt(newTotalSize, Zero) /\ FGt(newTotalCost, Zero)
                      THEN (IF isInverse THEN FDiv(newTotalSize, newTotalCost)
                                         ELSE FDiv(newTotalCost, newTotalSize))
                      ELSE @,
                  !.totalSize = newTotalSize,
                  !.totalValue = newTotalCost,
                  !._currentPositionSize = FAdd(@, event.size)]

\* updateState for an OPEN or ADD event
OkxIncrease(trade, event, isInverse) ==
    OkxIncreaseTo(trade, event, isInverse,
                  FAdd(trade.totalValue, OkxAddedCost(event, isInverse)),
                  FAdd(trade.totalSize, event.size))

\* the PnL of a reduction without the direction sign: what C5 rules out
OkxPnl_Unsigned(trade, event, sizeReduced, isInverse) ==
    FMul(FSub(event.price, trade.averageEntryPrice), sizeReduced)

\* the realized PnL of a reduction by sizeReduced at event.price
OkxPnl(trade, event, sizeReduced, isInverse) ==
    LET isLong == trade.direction = "long"
        entry == trade.averageEntryPrice
        one == Num(1)
    IN  IF isInverse
        THEN (IF FGt(entry, Zero) /\ FGt(event.price, Zero)
              THEN (IF isLong
                    THEN FMul(sizeReduced, FSub(FDiv(one, entry), FDiv(one, event.price)))
                    ELSE FMul(sizeReduced, FSub(FDiv(one, event.price), FDiv(one, entry))))
              ELSE Zero)
        ELSE FMul(FMul(FSub(event.price, entry), sizeReduced),
                  IF isLong THEN Num(1) ELSE Num(-1))

\* updateState for a REDUCE event: the value the reduction adds to the
\* closing value accumulator
OkxClosingValue(event, sizeReduced, isInverse) ==
    IF isInverse
    THEN (IF FGt(event.price, Zero) THEN FDiv(sizeReduced, event.price) ELSE Zero)
    ELSE FMul(sizeReduced, event.price)

\* updateState: averageExitPrice of a trade that closes
OkxExitPrice(trade, isInverse) ==
    IF FGt(trade._closingSizeAccumulator, Zero)
    THEN (IF isInverse
          THEN (IF FGt(trade._closingValueAccumulator, Zero)
                THEN FDiv(trade._closingSizeAccumulator, trade._closingValueAccumulator)
                ELSE Zero)
          ELSE FDiv(trade._closingValueAccumulator, trade._closingSizeAccumulator))
    ELSE trade.averageExitPrice

\* updateState: "Check if closed", on the reduced trade; the trade and the
\* action the event ends with
OkxCheckClosed(trade, event, isInverse) ==
    IF FLe(trade._currentPositionSize, Tolerance)
    THEN [trade |-> [trade EXCEPT !.status = "closed",
                                  !.exitTime = event.timestamp,
                                  !.durationMs = event.timestamp - trade.entryTime,
                                  !.averageExitPrice = OkxExitPrice(trade, isInverse),
                                  !._currentPositionSize = Zero],
          action |-> "CLOSE"]
    ELSE [trade |-> trade, action |-> "REDUCE"]

\* updateState for a REDUCE event that reduces by sizeReduced
OkxReduceBy(trade, event, isInverse, sizeReduced) ==
    OkxCheckClosed(
        [trade EXCEPT !.realizedPnl = FAdd(@, OkxPnl(trade, event, sizeReduced, isInverse)),
                      !._currentPositionSize = FSub(@, sizeReduced),
                      !._closingSizeAccumulator = FAdd(@, sizeReduced),
                      !._closingValueAccumulator =
                          FAdd(@, OkxClosingValue(event, sizeReduced, isInverse))],
        event, isInverse)

\* updateState for a REDUCE event: the trade and the action the event ends with
OkxReduce(trade, event, isInverse) ==
    OkxReduceBy(trade, event, isInverse, FMin(event.size, trade._currentPositionSize))

\* updateState: totalCommission += event.fee || 0
OkxAddCommission(r, event) ==
    [r EXCEPT !.trade.totalCommission = FAdd(@, OrZero(event.fee))]

\* OkxTradeBuilder.updateState
OkxUpdateState(trade, event, isInverse) ==
    OkxAddCommission(IF event.action \in {"OPEN", "ADD"}
                     THEN [trade |-> OkxIncrease(trade, event, isInverse),
                           action |-> event.action]
                     ELSE OkxReduce(trade, event, isInverse),
                     event)

\* addFill: the timeline event of the fill
OkxEvent(trade, fill, contractValue) ==
    NewEvent(fill, SafeParsersInteger(fill.ts, 0), OkxDetermineAction(fill, trade),
             FMul(SafeParsersFloat(fill.fillSz, Zero), contractValue),
             SafeParsersFloat(fill.fillPx, Zero),
             FNeg(SafeParsersFloat(fill.fee, Zero)), "undefined")

\* addFill: the references kept after updateState returned r
OkxRecord(r, event, fill) ==
    [r.trade EXCEPT !.timeline = Append(@, [event EXCEPT !.action = r.action]),
                    !.tradeIds = Append(@, fill.tradeId),
                    !.orderIds = PushUnique(@, fill.ordId),
                    !._rawFills = Append(@, fill)]

\* addFill, given the timeline event
OkxApply(trade, fill, event, isInverse) ==
    OkxRecord(OkxUpdateState(trade, event, isInverse), event, fill)

\* OkxTradeBuilder.addFill
OkxAddFill(trade, fill, contractValue, isInverse) ==
    OkxApply(trade, fill, OkxEvent(trade, fill, contractValue), isInverse)

\* new OkxTradeBuilder(firstFill, contractValue, isInverse)
OkxTradeBuilder(firstFill, contractValue, isInverse) ==
    OkxAddFill(OkxInitializeTrade(firstFill, isInverse), firstFill, contractValue,
               isInverse)

----------------------------------------------------------------------------
(* BinanceTradeBuilder (USDT-margined futures) *)

BinanceInitializeTrade(fill) ==
    LET timestamp == SafeParsersInteger(fill.ts, 0)
        positionSide == toLowerCase(fill.posSide)
        fillSide == toLowerCase(fill.side)
        direction == IF positionSide = "long" THEN "long"
                     ELSE IF positionSide = "short" THEN "short"
                     ELSE IF fillSide = "buy" THEN "long" ELSE "short"
    IN  BlankTrade(<<fill.instId, fill.posSide, timestamp>>, fill.instId, direction,
                   timestamp, "USDT", fill.feeCcy, "USDT")

\* applyEvent for an OPEN or ADD event, given the new totals
BinanceIncreaseTo(trade, event, newSize, newVal) ==
    [trade EXCEPT !.averageEntryPrice =
                      IF FGt(newSize, Zero) THEN FDiv(newVal, newSize) ELSE @,
                  !.totalSize = newSize,
                  !.totalValue = newVal,
                  !._currentPositionSize = FAdd(@, event.size)]

\* a reduction that is not added to the closing size: what C35 rules out
BinanceReduceBy_Uncounted(trade, event, isLong, reduceSize) ==
    [trade EXCEPT !.realizedPnl =
                      FAdd(@, FMul(FMul(FSub(event.price, trade.averageEntryPrice),
                                        reduceSize),
                                   IF isLong THEN Num(1) ELSE Num(-1))),
                  !._currentPositionSize = FSub(@, reduceSize),
                  !._closingValueAccumulator = FAdd(@, FMul(reduceSize, event.price))]

\* applyEvent for a REDUCE event that reduces by reduceSize
BinanceReduceBy(trade, event, isLong, reduceSize) ==
    [trade EXCEPT !.realizedPnl =
                      FAdd(@, FMul(FMul(FSub(event.price, trade.averageEntryPrice),
                                        reduceSize),
                                   IF isLong THEN Num(1) ELSE Num(-1))),
                  !._currentPositionSize = FSub(@, reduceSize),
                  !._closingSizeAccumulator = FAdd(@, reduceSize),
                  !._closingValueAccumulator = FAdd(@, FMul(reduceSize, event.price))]

\* applyEvent: this.trade.timeline.push(event)
PushEvent(trade, event) == [trade EXCEPT !.timeline = Append(@, event)]

\* BinanceTradeBuilder.applyEvent
BinanceApplyEvent(trade, event, isLong) ==
    PushEvent(IF event.action \in {"OPEN", "ADD"}
              THEN BinanceIncreaseTo(trade, event,
                                     FAdd(trade.totalSize, event.size),
                                     FAdd(trade.totalValue,
                                          FMul(event.size, event.price)))
              ELSE BinanceReduceBy(trade, event, isLong,
                                   FMin(event.size, trade._currentPositionSize)),
              event)

\* closeTrade / _closeTrade
BinanceCloseTrade(trade, exitTime) ==
    [trade EXCEPT !.status = "closed",
                  !.exitTime = exitTime,
                  !.durationMs = exitTime - trade.entryTime,
                  !.averageExitPrice =
                      IF FGt(trade._closingSizeAccumulator, Zero)
                      THEN FDiv(trade._closingValueAccumulator,
                                trade._closingSizeAccumulator)
                      ELSE @]

\* the last timeline event of the trade gets another action
SetLastAction(trade, action) ==
    [trade EXCEPT !.timeline[Len(trade.timeline)].action = action]

\* addFill: the action of the fill's timeline event
BinanceAction(trade, fill) ==
    IF Len(trade.timeline) = 0 THEN "OPEN"
    ELSE IF (trade.direction = "long") = (toLowerCase(fill.side) = "buy") THEN "ADD"
    ELSE "REDUCE"

\* addFill: the timeline event of the fill
BinanceEvent(trade, fill, contractValue) ==
    NewEvent(fill, SafeParsersInteger(fill.ts, 0), BinanceAction(trade, fill),
             FMul(SafeParsersFloat(fill.fillSz, Zero), contractValue),
             SafeParsersFloat(fill.fillPx, Zero),
             SafeParsersFloat(fill.fee, Zero), "undefined")

\* addFill: the references and the commission kept after applyEvent
BinanceRecord(trade, fill) ==
    [trade EXCEPT !._rawFills = Append(@, fill),
                  !.tradeIds = PushUnique(@, fill.tradeId),
                  !.orderIds = PushUnique(@, fill.ordId),
                  !.totalCommission = FAdd(@, SafeParsersFloat(fill.fee, Zero))]

\* addFill: close detection after a REDUCE event
BinanceDetectClose(trade, fill, action) ==
    IF action = "REDUCE" /\ FLe(trade._currentPositionSize, Tolerance)
    THEN SetLastAction(BinanceCloseTrade(trade, SafeParsersInteger(fill.ts, 0)), "CLOSE")
    ELSE trade

\* BinanceTradeBuilder.addFill
BinanceAddFill(trade, fill, contractValue) ==
    BinanceDetectClose(
        BinanceRecord(BinanceApplyEvent(trade, BinanceEvent(trade, fill, contractValue),
                                        trade.direction = "long"),
                      fill),
        fill, BinanceAction(trade, fill))

\* new BinanceTradeBuilder(firstFill, contractValue)
BinanceTradeBuilder(firstFill, contractValue) ==
    BinanceAddFill(BinanceInitializeTrade(firstFill), firstFill, contractValue)

----------------------------------------------------------------------------
(* Instrument metadata *)

HasInstrument(instruments, instId) ==
    \E i \in 1..Len(instruments) : instruments[i].instId = instId

\* this.instruments.get(instId): the last entry set for the id
GetInstrument(instruments, instId) ==
    instruments[CHOOSE i \in 1..Len(instruments) :
                    /\ instruments[i].instId = instId
                    /\ \A j \in (i + 1)..Len(instruments) : instruments[j].instId # instId]

\* instrument ? SafeParsers.float(instrument.ctVal, 1.0) : 1.0
ContractValue(instruments, instId) ==
    IF HasInstrument(instruments, instId)
    THEN SafeParsersFloat(GetInstrument(instruments, instId).ctVal, Num(1))
    ELSE Num(1)

----------------------------------------------------------------------------
(* Coin-margined, spot and margin processors: trade creation and update *)

\* _closeTrade of the coin-margined, spot and margin processors
CloseTrade(trade, exitTimestamp) ==
    [trade EXCEPT !.status = "closed",
                  !.exitTime = exitTimestamp,
                  !.durationMs = exitTimestamp - trade.entryTime,
                  !.averageExitPrice =
                      IF FGt(trade._closingSizeAccumulator, Zero)
                      THEN FDiv(trade._closingValueAccumulator,
                                trade._closingSizeAccumulator)
                      ELSE Zero]

\* the bookkeeping that ends each _updateTradeWithFill
RecordFill(trade, fill, event) ==
    [trade EXCEPT !.totalCommission = FAdd(@, event.fee),
                  !.timeline = Append(@, event),
                  !.tradeIds = Append(@, fill.tradeId),
                  !._rawFills = Append(@, fill),
                  !.orderIds = PushUnique(@, fill.ordId)]

\* BinanceCMFuturesTradeProcessor._createNewTrade
CMCreateNewTrade(fill, instruments) ==
    LET fillTimestamp == parseInt(fill.ts)
        positionSide == toLowerCase(fill.posSide)
        fillSide == toLowerCase(fill.side)
        known == HasInstrument(instruments, fill.instId)
        pnlCcy == IF known THEN GetInstrument(instruments, fill.instId).baseCcy
                  ELSE "Unknown"
        valCcy == IF known THEN GetInstrument(instruments, fill.instId).quoteCcy
                  ELSE "USD"
        direction == IF positionSide = "long" THEN "long"
                     ELSE IF positionSide = "short" THEN "short"
                     ELSE IF fillSide = "buy" THEN "long" ELSE "short"
    IN  BlankTrade(<<fill.instId, positionSide, fillTimestamp>>, fill.instId,
                   direction, fillTimestamp, pnlCcy, fill.feeCcy, valCcy)

\* the coin PnL with the linear formula, price difference times notional: what
\* C6 rules out
CMPnlCoin_Linear(trade, notionalReducedUsd, fillPrice) ==
    IF trade.direction = "long"
    THEN FMul(notionalReducedUsd, FSub(fillPrice, trade.averageEntryPrice))
    ELSE FMul(notionalReducedUsd, FSub(trade.averageEntryPrice, fillPrice))

\* pnlCoin of _updateTradeWithFill: notional * (1/entry - 1/exit), negated for a short
CMPnlCoin(trade, notionalReducedUsd, fillPrice) ==
    LET one == Num(1)
    IN  IF trade.direction = "long"
        THEN FMul(notionalReducedUsd,
                  FSub(FDiv(one, trade.averageEntryPrice), FDiv(one, fillPrice)))
        ELSE FMul(notionalReducedUsd,
                  FSub(FDiv(one, fillPrice), FDiv(one, trade.averageEntryPrice)))

\* _updateTradeWithFill: the contract value in USD, 100 when the instrument is
\* not known
CMContractValueUsd(fill, instruments) ==
    IF HasInstrument(instruments, fill.instId)
    THEN parseFloat(GetInstrument(instruments, fill.instId).ctVal)
    ELSE Num(DefaultContractValueUsd)

\* _updateTradeWithFill: the coin cost of the position before the fill
CMPreviousCostCoin(trade) ==
    IF FGt(trade.totalSize, Zero) /\ FGt(trade.averageEntryPrice, Zero)
    THEN FDiv(trade.totalValue, trade.averageEntryPrice)
    ELSE Zero

\* _updateTradeWithFill for an increasing fill of the given notional
CMIncreaseBy(trade, fill, fillPrice, fillSizeContracts, fillNotionalUsd) ==
    RecordFill(
        [trade EXCEPT
           !.averageEntryPrice =
               FDiv(FAdd(trade.totalValue, fillNotionalUsd),
                    FAdd(CMPreviousCostCoin(trade), FDiv(fillNotionalUsd, fillPrice))),
           !.totalSize = FAdd(@, fillSizeContracts),
           !.totalValue = FAdd(@, fillNotionalUsd),
           !._currentPositionSize = FAdd(@, fillSizeContracts)],
        fill,
        NewEvent(fill, parseInt(fill.ts),
                 IF Len(trade.timeline) > 0 THEN "ADD" ELSE "OPEN",
                 fillSizeContracts, fillPrice, parseFloat(fill.fee), "undefined"))

\* the end of a reducing _updateTradeWithFill: the position snaps to zero
\* within the tolerance and the event becomes a CLOSE
FinishReduce(trade, fill, fillPrice, fillSize) ==
    RecordFill(
        IF FLe(trade._currentPositionSize, Tolerance)
        THEN [trade EXCEPT !._currentPositionSize = Zero] ELSE trade,
        fill,
        NewEvent(fill, parseInt(fill.ts),
                 IF FLe(trade._currentPositionSize, Tolerance) THEN "CLOSE" ELSE "REDUCE",
                 fillSize, fillPrice, parseFloat(fill.fee), "undefined"))

\* _updateTradeWithFill for a reducing fill that reduces by sizeReducedContracts
CMReduceBy(trade, fill, fillPrice, fillSizeContracts, sizeReducedContracts, contractValueUsd) ==
    FinishReduce(
        [trade EXCEPT
           !.realizedPnl =
               FAdd(@, CMPnlCoin(trade, FMul(sizeReducedContracts, contractValueUsd),
                                 fillPrice)),
           !._currentPositionSize = FSub(@, sizeReducedContracts),
           !._closingSizeAccumulator = FAdd(@, sizeReducedContracts),
           !._closingValueAccumulator = FAdd(@, FMul(sizeReducedContracts, fillPrice))],
        fill, fillPrice, fillSizeContracts)

\* _updateTradeWithFill on the parsed fill
CMUpdate(trade, fill, fillPrice, fillSizeContracts, contractValueUsd) ==
    IF (trade.direction = "long") = (toLowerCase(fill.side) = "buy")
    THEN CMIncreaseBy(trade, fill, fillPrice, fillSizeContracts,
                      FMul(fillSizeContracts, contractValueUsd))
    ELSE CMReduceBy(trade, fill, fillPrice, fillSizeContracts,
                    FMin(fillSizeContracts, trade._currentPositionSize),
                    contractValueUsd)

\* BinanceCMFuturesTradeProcessor._updateTradeWithFill
CMUpdateTradeWithFill(trade, fill, instruments) ==
    CMUpdate(trade, fill, parseFloat(fill.fillPx), parseFloat(fill.fillSz),
             CMContractValueUsd(fill, instruments))

\* BinanceSpotTradeProcessor._createNewTrade
SpotCreateNewTrade(fill, instruments) ==
    LET fillTimestamp == parseInt(fill.ts)
        quoteCcy == IF HasInstrument(instruments, fill.instId)
                    THEN GetInstrument(instruments, fill.instId).quoteCcy
                    ELSE "USDT"
    IN  BlankTrade(<<fill.instId, "spot", fillTimestamp>>, fill.instId, "long",
                   fillTimestamp, quoteCcy, fill.feeCcy, quoteCcy)

\* _updateTradeWithFill for a buy, given the new cumulative size and cost
SpotIncreaseTo(trade, fill, fillPrice, fillSize, newCumulativeSize, newCumulativeCost) ==
    RecordFill(
        [trade EXCEPT
           !.averageEntryPrice = FDiv(newCumulativeCost, newCumulativeSize),
           !.totalSize = newCumulativeSize,
           !.totalValue = newCumulativeCost,
           !._currentPositionSize = FAdd(@, fillSize)],
        fill,
        NewEvent(fill, parseInt(fill.ts),
                 IF Len(trade.timeline) > 0 THEN "ADD" ELSE "OPEN",
                 fillSize, fillPrice, parseFloat(fill.fee), "undefined"))

\* a sell that takes its size off the cumulative size: what C26 rules out
SpotReduceBy_ShrinksTotal(trade, fill, fillPrice, fillSize, sizeReduced) ==
    FinishReduce(
        [trade EXCEPT
           !.realizedPnl =
               FAdd(@, FMul(FSub(fillPrice, trade.averageEntryPrice), sizeReduced)),
           !.totalSize = FSub(@, sizeReduced),
           !._currentPositionSize = FSub(@, sizeReduced),
           !._closingSizeAccumulator = FAdd(@, sizeReduced),
           !._closingValueAccumulator = FAdd(@, FMul(sizeReduced, fillPrice))],
        fill, fillPrice, fillSize)

\* _updateTradeWithFill for a sell that reduces by sizeReduced
SpotReduceBy(trade, fill, fillPrice, fillSize, sizeReduced) ==
    FinishReduce(
        [trade EXCEPT
           !.realizedPnl =
               FAdd(@, FMul(FSub(fillPrice, trade.averageEntryPrice), sizeReduced)),
           !._currentPositionSize = FSub(@, sizeReduced),
           !._closingSizeAccumulator = FAdd(@, sizeReduced),
           !._closingValueAccumulator = FAdd(@, FMul(sizeReduced, fillPrice))],
        fill, fillPrice, fillSize)

\* _updateTradeWithFill on the parsed fill
SpotUpdate(trade, fill, fillPrice, fillSize) ==
    IF toLowerCase(fill.side) = "buy"
    THEN SpotIncreaseTo(trade, fill, fillPrice, fillSize,
                        FAdd(trade.totalSize, fillSize),
                        FAdd(FMul(trade.totalSize, trade.averageEntryPrice),
                             FMul(fillSize, fillPrice)))
    ELSE SpotReduceBy(trade, fill, fillPrice, fillSize,
                      FMin(fillSize, trade._currentPositionSize))

\* BinanceSpotTradeProcessor._updateTradeWithFill
SpotUpdateTradeWithFill(trade, fill) ==
    SpotUpdate(trade, fill, parseFloat(fill.fillPx), parseFloat(fill.fillSz))

\* every new margin trade a long: what C8 rules out
MarginInitialDirection_AlwaysLong(fill) == "long"

\* _createNewTrade: Buy -> Long, Sell -> Short
MarginInitialDirection(fill) ==
    IF toLowerCase(fill.side) = "buy" THEN "long" ELSE "short"

\* BinanceMarginTradeProcessor._createNewTrade
MarginCreateNewTrade(fill, instruments) ==
    LET fillTimestamp == parseInt(fill.ts)
        quoteCcy == IF HasInstrument(instruments, fill.instId)
                    THEN GetInstrument(instruments, fill.instId).quoteCcy
                    ELSE "USDT"
    IN  BlankTrade(<<fill.instId, "margin", fillTimestamp>>, fill.instId,
                   MarginInitialDirection(fill),
                   fillTimestamp, quoteCcy, fill.feeCcy, quoteCcy)

\* _updateTradeWithFill for an increasing fill, given the size held before it
MarginIncreaseFrom(trade, fill, isOpeningNewCycle, fillPrice, fillSize, currentAbsSize) ==
    RecordFill(
        [trade EXCEPT
           !.averageEntryPrice =
               FDiv(FAdd(FMul(currentAbsSize, trade.averageEntryPrice),
                         FMul(fillSize, fillPrice)),
                    FAdd(currentAbsSize, fillSize)),
           !.totalSize = FAdd(@, fillSize),
           !.totalValue = FAdd(@, FMul(fillSize, fillPrice)),
           !._currentPositionSize =
               IF trade.direction = "long" THEN FAdd(@, fillSize)
               ELSE FSub(@, fillSize)],
        fill,
        NewEvent(fill, parseInt(fill.ts),
                 IF FGt(currentAbsSize, Zero) /\ ~isOpeningNewCycle
                 THEN "ADD" ELSE "OPEN",
                 fillSize, fillPrice, parseFloat(fill.fee), "undefined"))

\* the end of a reducing margin _updateTradeWithFill: the signed position
\* snaps to zero within the tolerance and the event becomes a CLOSE
MarginFinishReduce(trade, fill, fillPrice, fillSize) ==
    RecordFill(
        IF FLe(FAbs(trade._currentPositionSize), Tolerance)
        THEN [trade EXCEPT !._currentPositionSize = Zero] ELSE trade,
        fill,
        NewEvent(fill, parseInt(fill.ts),
                 IF FLe(FAbs(trade._currentPositionSize), Tolerance)
                 THEN "CLOSE" ELSE "REDUCE",
                 fillSize, fillPrice, parseFloat(fill.fee), "undefined"))

\* _updateTradeWithFill for a reducing fill: reduceSize is the whole fill
MarginReduceBy(trade, fill, fillPrice, reduceSize) ==
    MarginFinishReduce(
        [trade EXCEPT
           !.realizedPnl =
               FAdd(@, IF trade.direction = "long"
                       THEN FMul(FSub(fillPrice, trade.averageEntryPrice), reduceSize)
                       ELSE FMul(FSub(trade.averageEntryPrice, fillPrice), reduceSize)),
           !._currentPositionSize =
               IF trade.direction = "long" THEN FSub(@, reduceSize)
               ELSE FAdd(@, reduceSize),
           !._closingSizeAccumulator = FAdd(@, reduceSize),
           !._closingValueAccumulator = FAdd(@, FMul(reduceSize, fillPrice))],
        fill, fillPrice, reduceSize)

\* _updateTradeWithFill on the parsed fill
MarginUpdate(trade, fill, isOpeningNewCycle, fillPrice, fillSize) ==
    IF (trade.direction = "long") = (toLowerCase(fill.side) = "buy")
    THEN MarginIncreaseFrom(trade, fill, isOpeningNewCycle, fillPrice, fillSize,
                            FAbs(trade._currentPositionSize))
    ELSE MarginReduceBy(trade, fill, fillPrice, fillSize)

\* BinanceMarginTradeProcessor._updateTradeWithFill
MarginUpdateTradeWithFill(trade, fill, isOpeningNewCycle) ==
    MarginUpdate(trade, fill, isOpeningNewCycle, parseFloat(fill.fillPx),
                 parseFloat(fill.fillSz))

----------------------------------------------------------------------------
(* The map of open positions: entries [key, trade] in insertion order *)

MapHas(m, key) == \E i \in 1..Len(m) : m[i].key = key

MapIndex(m, key) == CHOOSE i \in 1..Len(m) : m[i].key = key

MapGet(m, key) == m[MapIndex(m, key)].trade

\* Map.set: a present key keeps its place, a new key goes last
MapSet(m, key, trade) ==
    IF MapHas(m, key)
    THEN [m EXCEPT ![MapIndex(m, key)].trade = trade]
    ELSE Append(m, [key |-> key, trade |-> trade])

MapDelete(m, key) ==
    IF MapHas(m, key)
    THEN LET k == MapIndex(m, key)
         IN  [i \in 1..(Len(m) - 1) |-> IF i < k THEN m[i] ELSE m[i + 1]]
    ELSE m

\* Array.from(openPositions.values())
MapValues(m) == [i \in 1..Len(m) |-> m[i].trade]

EmptyFold == [closedTrades |-> <<>>, openPositions |-> <<>>]

\* a closed trade whose builder stays in the map: what C15 rules out
MoveToClosed_KeepsBuilder(st, key, trade) ==
    [closedTrades |-> Append(st.closedTrades, trade),
     openPositions |-> MapSet(st.openPositions, key, trade)]

\* closedTrades.push(trade); openPositions.delete(positionKey)
MoveToClosed(st, key, trade) ==
    [closedTrades |-> Append(st.closedTrades, trade),
     openPositions |-> MapDelete(st.openPositions, key)]

KeepOpen(st, key, trade) ==
    [st EXCEPT !.openPositions = MapSet(st.openPositions, key, trade)]

----------------------------------------------------------------------------
(* The fold of one fill, per processor *)

\* isReduceOnly that knows long positions only: what C9 rules out
isReduceOnly_LongOnly(fill) ==
    toLowerCase(fill.posSide) = "long" /\ toLowerCase(fill.side) = "sell"

\* OkxUMFuturesTradeProcessor.isReduceOnly
isReduceOnly(fill) ==
    LET side == toLowerCase(fill.side)
        posSide == toLowerCase(fill.posSide)
    IN  (posSide = "long" /\ side = "sell") \/ (posSide = "short" /\ side = "buy")

\* the opening test of the Binance futures processors
isOpeningFill(fill) ==
    LET fillSide == toLowerCase(fill.side)
        positionSide == toLowerCase(fill.posSide)
    IN  (positionSide = "long" /\ fillSide = "buy")
        \/ (positionSide = "short" /\ fillSide = "sell")

\* a closed builder that stays in the map: what C33 rules out
Settle_KeepsClosed(st, positionKey, trade) == KeepOpen(st, positionKey, trade)

\* if (builder.isClosed()) { closedTrades.push(...); openPositions.delete(...) }
Settle(st, positionKey, trade) ==
    IF trade.status = "closed" THEN MoveToClosed(st, positionKey, trade)
    ELSE KeepOpen(st, positionKey, trade)

\* the loop body of OkxUMFuturesTradeProcessor.processFills for the key
OkxProcessFillAt(st, fill, instruments, positionKey) ==
    IF ~MapHas(st.openPositions, positionKey) /\ isReduceOnly(fill)
    THEN st
    ELSE Settle(st, positionKey,
                IF MapHas(st.openPositions, positionKey)
                THEN OkxAddFill(MapGet(st.openPositions, positionKey), fill,
                                ContractValue(instruments, fill.instId),
                                OkxIsInverse(fill.instId))
                ELSE OkxTradeBuilder(fill, ContractValue(instruments, fill.instId),
                                     OkxIsInverse(fill.instId)))

\* the loop body of OkxUMFuturesTradeProcessor.processFills
OkxProcessFill(st, fill, instruments) ==
    OkxProcessFillAt(st, fill, instruments, <<fill.instId, toLowerCase(fill.posSide)>>)

\* the loop body of BinanceUMFuturesTradeProcessor.processFills for the key
UMProcessFillAt(st, fill, instruments, positionKey) ==
    IF ~MapHas(st.openPositions, positionKey) /\ ~isOpeningFill(fill)
    THEN st
    ELSE Settle(st, positionKey,
                IF MapHas(st.openPositions, positionKey)
                THEN BinanceAddFill(MapGet(st.openPositions, positionKey), fill,
                                    ContractValue(instruments, fill.instId))
                ELSE BinanceTradeBuilder(fill, ContractValue(instruments, fill.instId)))

\* the loop body of BinanceUMFuturesTradeProcessor.processFills
UMProcessFill(st, fill, instruments) ==
    UMProcessFillAt(st, fill, instruments, <<fill.instId, fill.posSide>>)

\* the close test shared by the coin-margined and spot loops
ReducedToZero(trade) ==
    /\ FLe(trade._currentPositionSize, Tolerance)
    /\ Last(trade.timeline).action \in {"REDUCE", "CLOSE"}

\* if (size <= tolerance && last action is REDUCE or CLOSE) { _closeTrade(...);
\* closedTrades.push(...); openPositions.delete(...) }
SettleReduced(st, positionKey, fill, trade) ==
    IF ReducedToZero(trade)
    THEN MoveToClosed(st, positionKey, CloseTrade(trade, parseInt(fill.ts)))
    ELSE KeepOpen(st, positionKey, trade)

\* the loop body of the coin-margined loop for the key
CMProcessFillAt(st, fill, instruments, positionKey) ==
    IF ~MapHas(st.openPositions, positionKey) /\ ~isOpeningFill(fill)
    THEN st
    ELSE SettleReduced(st, positionKey, fill,
                       CMUpdateTradeWithFill(
                           IF MapHas(st.openPositions, positionKey)
                           THEN MapGet(st.openPositions, positionKey)
                           ELSE CMCreateNewTrade(fill, instruments),
                           fill, instruments))

\* the loop body of BinanceCMFuturesTradeProcessor._processFillsAndAggregateTrades
CMProcessFill(st, fill, instruments) ==
    CMProcessFillAt(st, fill, instruments, <<fill.instId, fill.posSide>>)

\* the loop body of the spot loop for the key
SpotProcessFillAt(st, fill, instruments, positionKey) ==
    IF ~MapHas(st.openPositions, positionKey) /\ toLowerCase(fill.side) # "buy"
    THEN st
    ELSE SettleReduced(st, positionKey, fill,
                       SpotUpdateTradeWithFill(
                           IF MapHas(st.openPositions, positionKey)
                           THEN MapGet(st.openPositions, positionKey)
                           ELSE SpotCreateNewTrade(fill, instruments),
                           fill))

\* the loop body of BinanceSpotTradeProcessor._processFillsAndAggregateTrades
SpotProcessFill(st, fill, instruments) ==
    SpotProcessFillAt(st, fill, instruments, <<fill.instId, "spot">>)

\* fillSz: size.toString() of a synthetic fill
WithSize(fill, size) ==
    [fill EXCEPT !.fillSz = IF size.d = 1 THEN Str(size.n) ELSE Garbage]

\* the flip test without its short-to-long branch: what C7 rules out
MarginIsFlip_LongOnly(trade, fill) ==
    /\ trade.direction = "long" /\ toLowerCase(fill.side) # "buy"
    /\ FGt(parseFloat(fill.fillSz), FAdd(trade._currentPositionSize, Tolerance))

\* a margin loop that never splits a fill: what C32 rules out
MarginIsFlip_Never(trade, fill) == FALSE

\* the flip test of the margin loop: is the fill a reversal of the trade
MarginIsFlip(trade, fill) ==
    LET fillSize == parseFloat(fill.fillSz)
        isBuy == toLowerCase(fill.side) = "buy"
    IN  \/ /\ trade.direction = "long" /\ ~isBuy
           /\ FGt(fillSize, FAdd(trade._currentPositionSize, Tolerance))
        \/ /\ trade.direction = "short" /\ isBuy
           /\ FGt(fillSize, FAdd(FAbs(trade._currentPositionSize), Tolerance))

\* the flip branch, given the two synthetic fills: the old trade takes the
\* closing fill and is closed, a new trade takes the opening fill
MarginFlipWith(st, fill, instruments, positionKey, trade, closingFill, openingFill) ==
    [closedTrades |->
         Append(st.closedTrades,
                CloseTrade(MarginUpdateTradeWithFill(trade, closingFill, FALSE),
                           parseInt(fill.ts))),
     openPositions |->
         MapSet(st.openPositions, positionKey,
                MarginUpdateTradeWithFill(MarginCreateNewTrade(openingFill, instruments),
                                          openingFill, TRUE))]

\* the flip branch, given the size that closes the old trade
MarginFlipBy(st, fill, instruments, positionKey, trade, closingSize) ==
    MarginFlipWith(st, fill, instruments, positionKey, trade,
                   WithSize(fill, closingSize),
                   WithSize(fill, FSub(parseFloat(fill.fillSz), closingSize)))

\* the normal branch: close the updated trade when it is reduced to zero
MarginSettle(st, positionKey, fill, trade) ==
    IF /\ FLe(FAbs(trade._currentPositionSize), Tolerance)
       /\ Last(trade.timeline).action \in {"REDUCE", "CLOSE"}
    THEN MoveToClosed(st, positionKey, CloseTrade(trade, parseInt(fill.ts)))
    ELSE KeepOpen(st, positionKey, trade)

\* the loop body of the margin loop for a fill of an open trade
MarginProcessOpen(st, fill, instruments, positionKey, trade) ==
    IF MarginIsFlip(trade, fill)
    THEN MarginFlipBy(st, fill, instruments, positionKey, trade,
                      IF trade.direction = "long" THEN trade._currentPositionSize
                      ELSE FAbs(trade._currentPositionSize))
    ELSE MarginSettle(st, positionKey, fill,
                      MarginUpdateTradeWithFill(trade, fill, FALSE))

\* the loop body of the margin loop for the key
MarginProcessFillAt(st, fill, instruments, positionKey) ==
    IF ~MapHas(st.openPositions, positionKey)
    THEN KeepOpen(st, positionKey,
                  MarginUpdateTradeWithFill(MarginCreateNewTrade(fill, instruments),
                                            fill, FALSE))
    ELSE MarginProcessOpen(st, fill, instruments, positionKey,
                           MapGet(st.openPositions, positionKey))

\* the loop body of BinanceMarginTradeProcessor._processFillsAndAggregateTrades
MarginProcessFill(st, fill, instruments) ==
    MarginProcessFillAt(st, fill, instruments, <<fill.instId, "margin">>)

ProcessFill(p, st, fill, instruments) ==
    CASE p = "OKX" -> OkxProcessFill(st, fill, instruments)
      [] p = "UM" -> UMProcessFill(st, fill, instruments)
      [] p = "CM" -> CMProcessFill(st, fill, instruments)
      [] p = "SPOT" -> SpotProcessFill(st, fill, instruments)
      [] p = "MARGIN" -> MarginProcessFill(st, fill, instruments)

\* for (const fill of rawFills) { ... } over the sorted fills
RECURSIVE processFills(_, _, _, _)
processFills(p, st, fills, instruments) ==
    IF fills = <<>> THEN st
    ELSE processFills(p, ProcessFill(p, st, Head(fills), instruments), Tail(fills),
                      instruments)

----------------------------------------------------------------------------
(* Funding bills *)

BILL_TYPE_FUNDING_FEE == "FUNDING_FEE"

OKX_BILL_TYPE_FUNDING == "8"

\* the window test without its upper end: what C10 rules out
isRelevant_NoExitBound(trade, billTs) == billTs >= trade.entryTime

\* billTs >= entryTime && (status === OPEN || billTs <= exitTime)
isRelevant(trade, billTs) ==
    /\ billTs >= trade.entryTime
    /\ (trade.status = "open" \/ billTs <= trade.exitTime)

\* trade.totalFundingFee += amount; trade._rawBills.push(bill), bill number i
AddFunding(trade, amount, i) ==
    [trade EXCEPT !.totalFundingFee = FAdd(@, amount),
                  !._rawBills = Append(@, i)]

\* OKX: one bill against one trade
OkxApplyBill(trade, bill, i) ==
    IF /\ bill.type = OKX_BILL_TYPE_FUNDING
       /\ bill.instId = trade.symbol
       /\ isRelevant(trade, SafeParsersInteger(bill.ts, 0))
    THEN AddFunding(trade, SafeParsersFloat(bill.balChg, Zero), i)
    ELSE trade

\* OKX: the bills of the trade's instrument, in bill order, each relevant one added
RECURSIVE OkxApplyBills(_, _, _)
OkxApplyBills(trade, bills, i) ==
    IF i > Len(bills) THEN trade
    ELSE OkxApplyBills(OkxApplyBill(trade, bills[i], i), bills, i + 1)

\* the least member of a set of indices, 0 when there is none
FirstOf(hits) ==
    IF hits = {} THEN 0 ELSE CHOOSE k \in hits : \A j \in hits : k <= j

\* Binance futures: the first trade of the bill's instrument that is relevant
FirstMatch(allTrades, bill, billTs) ==
    FirstOf({k \in 1..Len(allTrades) :
                /\ allTrades[k].symbol = bill.instId
                /\ isRelevant(allTrades[k], billTs)})

\* Binance futures: the bill goes to trade k, to no trade when k is 0
GiveBill(allTrades, k, amount, i) ==
    IF k = 0 THEN allTrades
    ELSE [allTrades EXCEPT ![k] = AddFunding(@, amount, i)]

\* Binance futures: one bill, taken by the first relevant trade (break)
BinanceApplyBill(p, allTrades, bill, i) ==
    GiveBill(allTrades,
             IF bill.type = BILL_TYPE_FUNDING_FEE
             THEN FirstMatch(allTrades, bill,
                             IF p = "UM" THEN SafeParsersInteger(bill.ts, 0)
                             ELSE parseInt(bill.ts))
             ELSE 0,
             IF p = "UM" THEN SafeParsersFloat(bill.balChg, Zero)
             ELSE parseFloat(bill.balChg),
             i)

\* Binance futures: bill by bill
RECURSIVE BinanceApplyBills(_, _, _, _)
BinanceApplyBills(p, allTrades, bills, i) ==
    IF i > Len(bills) THEN allTrades
    ELSE BinanceApplyBills(p, BinanceApplyBill(p, allTrades, bills[i], i), bills, i + 1)

\* applyBillsAndRisks / _applyBillsAndRisks on [...closedTrades, ...open trades]
applyBills(p, allTrades, rawBills) ==
    CASE p = "OKX" -> [k \in 1..Len(allTrades) |-> OkxApplyBills(allTrades[k], rawBills, 1)]
      [] p \in {"UM", "CM"} -> BinanceApplyBills(p, allTrades, rawBills, 1)
      [] OTHER -> allTrades

----------------------------------------------------------------------------
(* Position risks *)

\* `${risk.instId}-${risk.posSide.toLowerCase()}`, on Binance of symbol and
\* positionSide; the USDT-margined processor does not lowercase
riskKey(p, risk) ==
    CASE p = "OKX" -> <<risk.instId, toLowerCase(risk.posSide)>>
      [] p = "UM" -> <<risk.symbol, risk.positionSide>>
      [] OTHER -> <<risk.symbol, toLowerCase(risk.positionSide)>>

\* SafeParsers.float(risk.notionalUsd) / parseFloat(rawRisk.notional)
riskNotional(p, risk) ==
    IF p = "OKX" THEN SafeParsersFloat(risk.notionalUsd, Zero)
    ELSE parseFloat(risk.notional)

\* the place in allTrades of the open trade under the key, 0 when
\* openPositions.get(positionKey) is undefined
openTradeIndex(allTrades, openPositions, positionKey) ==
    IF MapHas(openPositions, positionKey)
    THEN Len(allTrades) - Len(openPositions) + MapIndex(openPositions, positionKey)
    ELSE 0

\* trade.currentNotionalValue = value on trade k, on no trade when k is 0
setNotional(allTrades, k, value) ==
    IF k = 0 THEN allTrades
    ELSE [allTrades EXCEPT ![k].currentNotionalValue = <<value>>]

\* the body of the risk loop: the USDT-margined processor's body is empty
applyRisk(p, allTrades, openPositions, risk) ==
    IF p \in {"OKX", "CM"}
    THEN setNotional(allTrades,
                     openTradeIndex(allTrades, openPositions, riskKey(p, risk)),
                     riskNotional(p, risk))
    ELSE allTrades

\* for (const risk of positions) { ... } from index i on
RECURSIVE applyRisks(_, _, _, _, _)
applyRisks(p, allTrades, openPositions, positions, i) ==
    IF i > Len(positions) THEN allTrades
    ELSE applyRisks(p, applyRisk(p, allTrades, openPositions, positions[i]),
                    openPositions, positions, i + 1)

----------------------------------------------------------------------------
(* Finalisation *)

\* _mergeEvents: the merged event, given the totals of the group
BinanceMergedEvent(events, totalVal, totalSz, totalFee) ==
    [events[1] EXCEPT
       !.price = IF FGt(totalSz, Zero) THEN FDiv(totalVal, totalSz) ELSE Zero,
       !.size = totalSz, !.fee = totalFee,
       !.action = IF \E i \in 1..Len(events) : events[i].action = "CLOSE" THEN "CLOSE"
                  ELSE IF \E i \in 1..Len(events) : events[i].action = "OPEN"
                  THEN "OPEN"
                  ELSE @]

\* _mergeEvents of the coin-margined, spot and margin processors
BinanceMergeEvents(events) ==
    IF Len(events) = 1 THEN events[1]
    ELSE BinanceMergedEvent(events, GroupTotal(events, "value"),
                            GroupTotal(events, "size"), GroupTotal(events, "rawfee"))

\* _aggregateTimelineEvents: may the current event join the group that ends
\* with prev
BinanceCanMerge(prev, current) ==
    /\ \/ current.action = prev.action
       \/ (prev.action = "REDUCE" /\ current.action = "CLOSE")
       \/ (prev.action = "CLOSE" /\ current.action = "REDUCE")
    /\ (current.timestamp - prev.timestamp) < mergeWindowMs

RECURSIVE BinanceAggregateLoop(_, _, _, _)
BinanceAggregateLoop(timeline, i, currentGroup, aggregated) ==
    IF i > Len(timeline) THEN Append(aggregated, BinanceMergeEvents(currentGroup))
    ELSE IF BinanceCanMerge(Last(currentGroup), timeline[i])
    THEN BinanceAggregateLoop(timeline, i + 1, Append(currentGroup, timeline[i]),
                              aggregated)
    ELSE BinanceAggregateLoop(timeline, i + 1, <<timeline[i]>>,
                              Append(aggregated, BinanceMergeEvents(currentGroup)))

\* _aggregateTimelineEvents of the coin-margined, spot and margin processors
BinanceAggregateTimelineEvents(timeline) ==
    IF Len(timeline) < 2 THEN timeline
    ELSE BinanceAggregateLoop(timeline, 2, <<timeline[1]>>, <<>>)

\* the net PnL without the funding fees: what C3 rules out
NetPnl_WithoutFunding(p, trade) == FSub(trade.realizedPnl, trade.totalCommission)

\* netPnl = realizedPnl - totalCommission + totalFundingFee (OKX, USDT- and
\* coin-margined); netPnl = realizedPnl - totalCommission (spot, margin)
NetPnl(p, trade) ==
    IF p \in {"SPOT", "MARGIN"}
    THEN FSub(trade.realizedPnl, trade.totalCommission)
    ELSE FAdd(FSub(trade.realizedPnl, trade.totalCommission), trade.totalFundingFee)

\* the coin-margined ROI: net PnL over the cost in coin
CMPnlPercentage(netPnl, costCoin) ==
    IF costCoin # Zero THEN FDiv(netPnl, costCoin) ELSE Zero

\* the ROI of a trade with net PnL netPnl
PnlPercentage(p, trade, netPnl) ==
    IF p = "CM"
    THEN CMPnlPercentage(netPnl, FDiv(trade.totalValue, trade.averageEntryPrice))
    ELSE IF FGt(trade.totalValue, Zero) THEN FDiv(netPnl, trade.totalValue) ELSE Zero

\* finalizeMetrics / _finalizeTradeMetrics, given the net PnL of the trade
finalizeWith(p, trade, netPnl) ==
    [trade EXCEPT
       !.timeline = IF p \in {"OKX", "UM"} THEN aggregateEvents(@)
                    ELSE BinanceAggregateTimelineEvents(@),
       !.netPnl = netPnl,
       !.pnlPercentage = PnlPercentage(p, trade, netPnl)]

\* finalizeMetrics / _finalizeTradeMetrics for one trade
finalizeTrade(p, trade) == finalizeWith(p, trade, NetPnl(p, trade))

----------------------------------------------------------------------------
(* processAllData *)

\* sortFills without the fill-id tie-break on OKX: what C2 rests on
sortFills_TimestampOnly(p, fills) == StableSort(fills, "binanceFill")

\* rawFills.sort(...) of each processor
sortFills(p, fills) ==
    IF p = "OKX" THEN StableSort(fills, "okxFill")
    ELSE StableSort(fills, "binanceFill")

\* [...closedTrades, ...Array.from(openPositions.values())]
allTradesOf(st) == st.closedTrades \o MapValues(st.openPositions)

\* the trades before enrichment: [...closedTrades, ...open trades]
foldedTrades(p, fills, instruments) ==
    allTradesOf(processFills(p, EmptyFold, sortFills(p, fills), instruments))

\* finalizeMetrics(allTrades) / allTrades.forEach(_finalizeTradeMetrics)
finalizeMetrics(p, allTrades) ==
    [k \in 1..Len(allTrades) |-> finalizeTrade(p, allTrades[k])]

\* the map of open positions that processFills leaves
openPositionsOf(p, fills, instruments) ==
    processFills(p, EmptyFold, sortFills(p, fills), instruments).openPositions

\* processAllData(rawFills, rawBills, instruments, positions): the returned trades
processAllData(p, fills, bills, instruments, positions) ==
    finalizeMetrics(p, applyRisks(p, applyBills(p, foldedTrades(p, fills, instruments), bills),
                                  openPositionsOf(p, fills, instruments), positions, 1))

\* the open builders hold the trades that processAllData goes on to enrich
\* and returns: the last Len(openPositions) trades of the result
WithTrades(openPositions, allTrades) ==
    [i \in 1..Len(openPositions) |->
        [openPositions[i] EXCEPT
           !.trade = allTrades[Len(allTrades) - Len(openPositions) + i]]]

\* this.lastOpenPositions = openPositions, as processAllData leaves it (OKX)
okxLastOpenPositions(fills, bills, instruments, positions) ==
    WithTrades(openPositionsOf("OKX", fills, instruments),
               processAllData("OKX", fills, bills, instruments, positions))

\* fills.push(...trade._rawFills) over the builders from index i on
RECURSIVE openFillsFrom(_, _)
openFillsFrom(openPositions, i) ==
    IF i > Len(openPositions) THEN <<>>
    ELSE openPositions[i].trade._rawFills \o openFillsFrom(openPositions, i + 1)

\* OkxUMFuturesTradeProcessor.getOpenPositionFills
getOpenPositionFills(openPositions) == openFillsFrom(openPositions, 1)

----------------------------------------------------------------------------
(* The batches a caller hands to processAllData *)

Processors == {"OKX", "UM", "CM", "SPOT", "MARGIN"}

FuturesProcessors == {"OKX", "UM", "CM"}

\* the instrument the fills of a batch are for
InstIdOf(p) ==
    CASE p = "OKX" -> "BTC-USDT-SWAP"
      [] p = "CM" -> "BTCUSD_PERP"
      [] OTHER -> "BTCUSDT"

\* the instrument list of a batch: no metadata, or the instrument with a
\* contract value of 2
InstrumentChoices(p) ==
    {<<>>,
     <<[instId |-> InstIdOf(p), ctVal |-> Str(2),
        baseCcy |-> "BTC", quoteCcy |-> IF p = "CM" THEN "USD" ELSE "USDT"]>>}

\* hedge-mode position sides on the futures processors; spot and margin fills
\* carry none
PosSides(p) == IF p \in FuturesProcessors THEN {"long", "short"} ELSE {""}

\* OKX reports a paid fee as a negative amount, Binance as a positive one
FeeOf(p) == IF p = "OKX" THEN Str(-1) ELSE Str(1)

Fill(p, tradeId, ordId, side, posSide, px, sz, ts) ==
    [instId |-> InstIdOf(p), tradeId |-> tradeId, ordId |-> ordId,
     side |-> side, posSide |-> posSide, fillPx |-> Str(px), fillSz |-> sz,
     fee |-> FeeOf(p), feeCcy |-> "USDT", ts |-> Str(ts)]

\* "ordered": well-formed fills as an exchange reports them, the k-th fill one
\* tick after the one before, two consecutive fills per order
OrderedFills(p, k) ==
    {Fill(p, k, (k + 1) \div 2, side, posSide, px, Str(sz), k) :
        side \in {"buy", "sell"}, posSide \in PosSides(p),
        px \in 1..MaxPx, sz \in 1..MaxSz}

\* "shuffled": fills in any array order, with timestamps and fill ids that
\* may repeat
ShuffledFills(p) ==
    {Fill(p, id, id, side, IF p \in FuturesProcessors THEN "long" ELSE "", 1, Str(sz), ts) :
        side \in {"buy", "sell"}, id \in 1..MaxShuffledId,
        sz \in 1..MaxShuffledSz, ts \in 0..MaxShuffledTs}

\* "funding": unit fills, the k-th fill at price k and at tick 2k - 1, so
\* that a bill can fall before, on, between and after the fills
FundingFills(p, k) ==
    {Fill(p, k, k, side, posSide, k, Str(1), 2 * k - 1) :
        side \in {"buy", "sell"}, posSide \in PosSides(p)}

\* "malformed": as "ordered", at price 1, with sizes that are zero, do not
\* parse, or lie above the tolerance
MalformedFills(p, k) ==
    {Fill(p, k, k, side, posSide, 1, sz, k) :
        side \in {"buy", "sell"}, posSide \in PosSides(p),
        sz \in {Garbage, Str(0)} \cup {Str(n) : n \in 2..MaxMalformedSz}}

\* "incremental": a time-ordered sequence of unit fills, each fill at the
\* timestamp of the one before or one tick later, the k-th fill at price k
IncrementalFills(p, fills) ==
    {Fill(p, id, id, side, posSide, Len(fills) + 1, Str(1), ts) :
        side \in {"buy", "sell"}, posSide \in PosSides(p),
        id \in 1..MaxIncrementalId,
        ts \in IF fills = <<>> THEN {0}
               ELSE {fills[Len(fills)].ts.v, fills[Len(fills)].ts.v + 1}}

\* "risks": unit fills one tick apart, the position side in either letter case
RiskFills(p, k) ==
    {Fill(p, k, k, side, posSide, 1, Str(1), k) :
        side \in {"buy", "sell"}, posSide \in {"long", "LONG", "short"}}

\* "sides": unit fills one tick apart whose position side is set (hedge mode),
\* 'net' or 'both' (one-way mode), or unset
SideFills(p, k) ==
    {Fill(p, k, k, side, posSide, k, Str(1), k) :
        side \in {"buy", "sell"}, posSide \in {"long", "short", "net", "both", ""}}

\* the position-risk snapshots of a batch: OkxPosition on OKX, RawPositionRisk
\* on Binance, for the instrument of the fills or for another one
Risks(p) ==
    IF p = "OKX"
    THEN {[instId |-> inst, posSide |-> posSide, notionalUsd |-> Str(n)] :
             inst \in {InstIdOf(p), "UNRELATED"},
             posSide \in {"long", "LONG", "short"}, n \in {5}}
    ELSE {[symbol |-> inst, positionSide |-> posSide, notional |-> Str(n)] :
             inst \in {InstIdOf(p), "UNRELATED"},
             posSide \in {"long", "LONG", "short"}, n \in {5}}

\* the bills of a funding batch
Bills(p) ==
    {[instId |-> inst, type |-> type, balChg |-> Str(-1), ts |-> Str(ts)] :
        inst \in {InstIdOf(p), "UNRELATED"},
        type \in {OKX_BILL_TYPE_FUNDING, BILL_TYPE_FUNDING_FEE},
        ts \in 0..MaxBillTs}

VARIABLES
    proc,               \* the variant processor that is called
    mode,               \* the kind of batch the caller assembles
    instrumentDetails,  \* the caller's instrument array
    rawFills,           \* the caller's fill array (processAllData sorts it in place)
    rawBills,           \* the caller's bill array
    rawPositionRisks,   \* the caller's position-risk array
    trades,             \* the trade list the last call returned
    pc                  \* "fetch": assembling the batch, "done": processAllData returned

VARIABLES
    executionEvents,    \* the event list a caller hands to TimelineUtils.aggregateEvents
    aggregated,         \* what aggregateEvents returned for executionEvents
    reaggregated,       \* what aggregateEvents returned for that result
    timelinePc          \* "idle", "build", "once": aggregated, "twice": re-aggregated

VARIABLES
    lastOpenPositions,  \* the OKX processor's field: the open builders of its last call
    previousTrades,     \* the trade list the call before the last returned
    split               \* the number of fills handed over in the first of two calls

processorVars == <<lastOpenPositions, previousTrades, split>>

VARIABLES
    history,            \* the fills the exchange holds for the account, oldest first
    lastSyncTimestamp,  \* the provider's and the settings' last-sync timestamp
    fillCache,          \* the persisted 'okx-fill-cache'
    syncs               \* the number of syncTrades calls so far

providerVars == <<history, lastSyncTimestamp, fillCache, syncs>>

VARIABLES
    parserValue,        \* the argument of a SafeParsers call
    parserFallback,     \* its fallback
    parserResult        \* the function called and what it returned

parserVars == <<parserValue, parserFallback, parserResult>>

VARIABLES
    oldContent,         \* the note in the vault, as lines
    newContent,         \* the note generated from the trade, as lines
    mergedContent       \* what mergeNoteContent returned for the two

noteVars == <<oldContent, newContent, mergedContent>>

VARIABLES
    settings,           \* the plugin settings TradeSyncService shares: exchange and last-sync timestamps
    dataProvider,       \* TradeSyncService.dataProvider: its exchange and its lastSyncTimestamp
    syncCalls,          \* the syncTrades calls under way, each at one of its awaits
    syncLog             \* how the syncTrades call that returned last ended

serviceVars == <<settings, dataProvider, syncCalls, syncLog>>

VARIABLES
    loopActive,         \* KLineDataService.loopActive
    queue,              \* KLineDataService.queue
    activeDownloads,    \* KLineDataService.activeDownloads
    running,            \* the tasks whose processTask promise is pending
    nextTask,           \* the number of tasks queued so far
    taskErrors          \* the tasks processTask logged as failed

queueVars == <<loopActive, queue, activeDownloads, running, nextTask, taskErrors>>

\* the state of the pure functions that are called on their own, and of the
\* services that run on their own
callVars == <<parserVars, noteVars, serviceVars, queueVars>>

batchVars == <<proc, mode, instrumentDetails, rawFills, rawBills, rawPositionRisks, trades, pc>>

timelineVars == <<executionEvents, aggregated, reaggregated, timelinePc>>

vars == <<batchVars, timelineVars, processorVars, providerVars, callVars>>

\* the variables a call of processAllData leaves alone
notBatch == <<timelineVars, previousTrades, split, providerVars, callVars>>

\* the variables a call of aggregateEvents leaves alone
notTimeline == <<batchVars, processorVars, providerVars, callVars>>

\* the processor as its constructor leaves it, before any call
NewProcessor ==
    /\ lastOpenPositions = <<>>
    /\ previousTrades = <<>>
    /\ split = 0

\* no SafeParsers call of its own is under way
NoResult == [fn |-> "none", value |-> Zero]

NoParserCall ==
    /\ parserValue = Undefined
    /\ parserFallback = Zero
    /\ parserResult = NoResult

\* no mergeNoteContent call of its own is under way
NotMerged == [done |-> FALSE, content |-> <<>>]

NoMerge ==
    /\ oldContent = <<>>
    /\ newContent = <<>>
    /\ mergedContent = NotMerged

\* DEFAULT_SETTINGS as far as TradeSyncService reads them
DefaultSettings ==
    [exchange |-> "BINANCE", lastSyncTimestampOkx |-> 0,
     lastSyncTimestampBinance |-> 0, lastSyncTimestamp |-> 0]

\* ServiceContainer.createDataProvider: the provider of the selected exchange,
\* constructed with that exchange's last-sync timestamp
createDataProvider(s) ==
    [exchange |-> s.exchange,
     lastSyncTimestamp |-> IF s.exchange = "OKX" THEN s.lastSyncTimestampOkx
                           ELSE s.lastSyncTimestampBinance]

NoSyncLog == [n |-> 0, outcome |-> "none", exchange |-> "none", standardizedTrades |-> <<>>]

\* a TradeSyncService that was constructed and never called
NoService ==
    /\ settings = DefaultSettings
    /\ dataProvider = createDataProvider(DefaultSettings)
    /\ syncCalls = <<>>
    /\ syncLog = NoSyncLog

\* a KLineDataService that was constructed and never called
NoDownloads ==
    /\ loopActive = FALSE
    /\ queue = <<>>
    /\ activeDownloads = 0
    /\ running = {}
    /\ nextTask = 0
    /\ taskErrors = {}

\* the provider as its constructor leaves it on a first run: nothing synced,
\* nothing cached
NewProvider ==
    /\ history = <<>>
    /\ lastSyncTimestamp = 0
    /\ fillCache = <<>>
    /\ syncs = 0

\* no aggregateEvents call of its own is under way
IdleTimeline ==
    /\ executionEvents = <<>>
    /\ aggregated = <<>>
    /\ reaggregated = <<>>
    /\ timelinePc = "idle"

FillChoices ==
    CASE mode = "ordered" -> OrderedFills(proc, Len(rawFills) + 1)
      [] mode = "shuffled" -> ShuffledFills(proc)
      [] mode = "funding" -> FundingFills(proc, Len(rawFills) + 1)
      [] mode = "malformed" -> MalformedFills(proc, Len(rawFills) + 1)
      [] mode = "incremental" -> IncrementalFills(proc, rawFills)
      [] mode = "risks" -> RiskFills(proc, Len(rawFills) + 1)
      [] mode = "sides" -> SideFills(proc, Len(rawFills) + 1)

FillLimit ==
    CASE mode = "funding" -> MaxFundingFills
      [] mode = "incremental" -> MaxIncrementalFills
      [] mode = "risks" -> MaxRiskFills
      [] mode = "sides" -> MaxSideFills
      [] OTHER -> MaxFills

InitMode(m) ==
    /\ proc \in Processors
    /\ mode = m
    /\ instrumentDetails \in (IF m = "ordered" THEN InstrumentChoices(proc) ELSE {<<>>})
    /\ rawFills = <<>>
    /\ rawBills = <<>>
    /\ rawPositionRisks = <<>>
    /\ trades = <<>>
    /\ pc = "fetch"
    /\ IdleTimeline
    /\ NewProcessor
    /\ NewProvider
    /\ NoParserCall
    /\ NoMerge
    /\ NoService
    /\ NoDownloads

\* the caller fetches one more fill into the batch
FetchFill ==
    /\ pc = "fetch"
    /\ Len(rawFills) < FillLimit
    /\ \E f \in FillChoices : rawFills' = Append(rawFills, f)
    /\ UNCHANGED <<proc, mode, instrumentDetails, rawPositionRisks, rawBills, trades, pc>>
    /\ UNCHANGED <<notBatch, lastOpenPositions>>

\* processAllData(rawFills, rawBills, instrumentDetails, rawPositionRisks)
ProcessAllData ==
    /\ pc = "fetch"
    /\ rawFills' = sortFills(proc, rawFills)
    /\ trades' = processAllData(proc, rawFills, rawBills, instrumentDetails, rawPositionRisks)
    /\ lastOpenPositions' =
           IF proc = "OKX"
           THEN okxLastOpenPositions(rawFills, rawBills, instrumentDetails, rawPositionRisks)
           ELSE lastOpenPositions
    /\ pc' = "done"
    /\ UNCHANGED <<proc, mode, instrumentDetails, rawPositionRisks, rawBills>>
    /\ UNCHANGED notBatch

\* the caller fetches one more bill into the batch
FetchBill ==
    /\ pc = "fetch"
    /\ Len(rawBills) < MaxBills
    /\ \E b \in Bills(proc) : rawBills' = Append(rawBills, b)
    /\ UNCHANGED <<proc, mode, instrumentDetails, rawPositionRisks, rawFills, trades, pc>>
    /\ UNCHANGED <<notBatch, lastOpenPositions>>

Init == InitMode("ordered")

Next == FetchFill \/ ProcessAllData

Spec == Init /\ [][Next]_vars

\* batches in any array order
InitShuffled == InitMode("shuffled")

SpecShuffled == InitShuffled /\ [][Next]_vars

\* batches with funding bills
InitFunding == InitMode("funding")

NextFunding == FetchFill \/ FetchBill \/ ProcessAllData

SpecFunding == InitFunding /\ [][NextFunding]_vars

\* batches with malformed sizes
InitMalformed == InitMode("malformed")

SpecMalformed == InitMalformed /\ [][Next]_vars

----------------------------------------------------------------------------
(* Two calls on one OKX processor: a prefix of the fills, then the fills of
   the positions left open followed by the rest *)

InitIncremental ==
    /\ proc = "OKX"
    /\ mode = "incremental"
    /\ instrumentDetails = <<>>
    /\ rawFills = <<>>
    /\ rawBills = <<>>
    /\ rawPositionRisks = <<>>
    /\ trades = <<>>
    /\ pc = "fetch"
    /\ IdleTimeline
    /\ NewProcessor
    /\ NewProvider
    /\ NoParserCall
    /\ NoMerge
    /\ NoService
    /\ NoDownloads

\* processAllData(A, [], instruments, []) on the first n fills
ProcessPrefix ==
    /\ pc = "fetch"
    /\ \E n \in 0..Len(rawFills) :
          /\ split' = n
          /\ trades' = processAllData(proc, SubSeq(rawFills, 1, n), rawBills,
                                      instrumentDetails, rawPositionRisks)
          /\ lastOpenPositions' = okxLastOpenPositions(SubSeq(rawFills, 1, n), rawBills,
                                                       instrumentDetails, rawPositionRisks)
    /\ previousTrades' = trades
    /\ pc' = "first"
    /\ UNCHANGED <<proc, mode, instrumentDetails, rawPositionRisks, rawFills, rawBills>>
    /\ UNCHANGED <<timelineVars, providerVars, callVars>>

\* the batch of the second call: [...getOpenPositionFills(), ...B]
SecondBatch ==
    getOpenPositionFills(lastOpenPositions)
        \o SubSeq(rawFills, split + 1, Len(rawFills))

\* processAllData([...getOpenPositionFills(), ...B], [], instruments, [])
ProcessRest ==
    /\ pc = "first"
    /\ trades' = processAllData(proc, SecondBatch, rawBills, instrumentDetails, rawPositionRisks)
    /\ lastOpenPositions' = okxLastOpenPositions(SecondBatch, rawBills, instrumentDetails, rawPositionRisks)
    /\ previousTrades' = trades
    /\ pc' = "done"
    /\ UNCHANGED <<proc, mode, instrumentDetails, rawPositionRisks, rawFills, rawBills, split>>
    /\ UNCHANGED <<timelineVars, providerVars, callVars>>

NextIncremental == FetchFill \/ ProcessPrefix \/ ProcessRest

SpecIncremental == InitIncremental /\ [][NextIncremental]_vars

----------------------------------------------------------------------------
(* Batches with position-risk snapshots, on the futures processors *)

InitRisks ==
    /\ proc \in FuturesProcessors
    /\ mode = "risks"
    /\ instrumentDetails = <<>>
    /\ rawFills = <<>>
    /\ rawBills = <<>>
    /\ rawPositionRisks = <<>>
    /\ trades = <<>>
    /\ pc = "fetch"
    /\ IdleTimeline
    /\ NewProcessor
    /\ NewProvider
    /\ NoParserCall
    /\ NoMerge
    /\ NoService
    /\ NoDownloads

\* the caller fetches one more position-risk snapshot into the batch
FetchRisk ==
    /\ pc = "fetch"
    /\ Len(rawPositionRisks) < MaxRisks
    /\ \E r \in Risks(proc) : rawPositionRisks' = Append(rawPositionRisks, r)
    /\ UNCHANGED <<proc, mode, instrumentDetails, rawFills, rawBills, trades, pc>>
    /\ UNCHANGED <<notBatch, lastOpenPositions>>

NextRisks == FetchFill \/ FetchRisk \/ ProcessAllData

SpecRisks == InitRisks /\ [][NextRisks]_vars

\* futures batches in hedge mode and in one-way mode
InitSides ==
    /\ proc \in FuturesProcessors
    /\ mode = "sides"
    /\ instrumentDetails = <<>>
    /\ rawFills = <<>>
    /\ rawBills = <<>>
    /\ rawPositionRisks = <<>>
    /\ trades = <<>>
    /\ pc = "fetch"
    /\ IdleTimeline
    /\ NewProcessor
    /\ NewProvider
    /\ NoParserCall
    /\ NoMerge
    /\ NoService
    /\ NoDownloads

SpecSides == InitSides /\ [][Next]_vars

----------------------------------------------------------------------------
(* The data providers across syncs: TradeSyncService.syncTrades calling
   getStandardizedTrades of the OKX or of the Binance provider *)

\* the start of OkxDataProvider's two-week window, Date.now() - 14 days: the
\* history of the model lies inside the window
twoWeeksAgo == 0

\* the next fill the exchange executes: a unit fill with its own trade id,
\* one tick after the fill before it
SyncFills(p, fills) ==
    {Fill(p, Len(fills) + 1, Len(fills) + 1, side, posSide, Len(fills) + 1,
          Str(1), Len(fills) + 1) :
        side \in {"buy", "sell"}, posSide \in {"long", "short"}}

Reverse(s) == [i \in 1..Len(s) |-> s[Len(s) + 1 - i]]

\* OkxDataProvider._fetchFillsLoop: the fills newer than minTimestamp, in the
\* order of the pages, newest first
okxFetchFillsLoop(fills, minTimestamp) ==
    Reverse(SelectSeq(fills, LAMBDA f : parseInt(f.ts) > minTimestamp))

\* OkxDataProvider.fetchAllData, the fills of it
okxFetchFills(fills, lastSync) ==
    okxFetchFillsLoop(fills, IF lastSync > twoWeeksAgo THEN lastSync ELSE twoWeeksAgo)

\* BinanceDataProvider.fetchAllData, the fills of it: userTrades from
\* startTime on, the whole history when there is no start
binanceFetchFills(fills, lastSync) ==
    IF lastSync > 0
    THEN SelectSeq(fills, LAMBDA f : parseInt(f.ts) >= lastSync)
    ELSE fills

\* unique.set(key, fill) over the fills from index i on
RECURSIVE uniqueFrom(_, _, _)
uniqueFrom(fills, i, unique) ==
    IF i > Len(fills) THEN unique
    ELSE uniqueFrom(fills, i + 1, MapSet(unique, fills[i].tradeId, fills[i]))

\* OkxDataProvider.deduplicateFills
deduplicateFills(fills) == MapValues(uniqueFrom(fills, 1, <<>>))

\* the fills a provider hands to its processor: the OKX provider puts the
\* cached fills before the fetched ones, the Binance provider has no cache
providerFills(p, cache, fills, lastSync) ==
    IF p = "OKX"
    THEN deduplicateFills(cache \o okxFetchFills(fills, lastSync))
    ELSE binanceFetchFills(fills, lastSync)

\* trade._rawFills.reduce(... Math.max(fillMax, parseInt(fill.ts)), 0)
RECURSIVE fillsMaxTs(_)
fillsMaxTs(fills) ==
    IF fills = <<>> THEN 0
    ELSE IF parseInt(Head(fills).ts) > fillsMaxTs(Tail(fills))
         THEN parseInt(Head(fills).ts) ELSE fillsMaxTs(Tail(fills))

\* standardizedTrades.reduce(... Math.max(max, tradeMaxTs), 0)
RECURSIVE maxTimestamp(_)
maxTimestamp(result) ==
    IF result = <<>> THEN 0
    ELSE IF fillsMaxTs(Head(result)._rawFills) > maxTimestamp(Tail(result))
         THEN fillsMaxTs(Head(result)._rawFills) ELSE maxTimestamp(Tail(result))

\* the last-sync timestamp after TradeSyncService.syncTrades
syncedTimestamp(result, lastSync) ==
    IF Len(result) > 0 /\ maxTimestamp(result) > lastSync
    THEN maxTimestamp(result) ELSE lastSync

InitSync ==
    /\ proc \in {"OKX", "UM"}
    /\ mode = "sync"
    /\ instrumentDetails = <<>>
    /\ rawFills = <<>>
    /\ rawBills = <<>>
    /\ rawPositionRisks = <<>>
    /\ trades = <<>>
    /\ pc = "idle"
    /\ IdleTimeline
    /\ NewProcessor
    /\ NewProvider
    /\ NoParserCall
    /\ NoMerge
    /\ NoService
    /\ NoDownloads

\* the exchange executes one more fill of the account
ExecuteFill ==
    /\ Len(history) < MaxSyncFills
    /\ \E fill \in SyncFills(proc, history) : history' = Append(history, fill)
    /\ UNCHANGED <<batchVars, timelineVars, processorVars, callVars>>
    /\ UNCHANGED <<lastSyncTimestamp, fillCache, syncs>>

\* TradeSyncService.syncTrades: getStandardizedTrades of the provider, then
\* the update of the last-sync timestamp
SyncTrades ==
    /\ syncs < MaxSyncs
    /\ rawFills' = sortFills(proc, providerFills(proc, fillCache, history, lastSyncTimestamp))
    /\ trades' = processAllData(proc, rawFills', rawBills, instrumentDetails, rawPositionRisks)
    /\ lastOpenPositions' = IF proc = "OKX"
                            THEN okxLastOpenPositions(rawFills', rawBills, instrumentDetails, rawPositionRisks)
                            ELSE lastOpenPositions
    /\ fillCache' = IF proc = "OKX" THEN getOpenPositionFills(lastOpenPositions')
                    ELSE fillCache
    /\ lastSyncTimestamp' = syncedTimestamp(trades', lastSyncTimestamp)
    /\ previousTrades' = trades
    /\ syncs' = syncs + 1
    /\ pc' = "done"
    /\ UNCHANGED <<proc, mode, instrumentDetails, rawPositionRisks, rawBills, split, history>>
    /\ UNCHANGED <<timelineVars, callVars>>

NextSync == ExecuteFill \/ SyncTrades

SpecSync == InitSync /\ [][NextSync]_vars

----------------------------------------------------------------------------
(* SafeParsers called on its own *)

ParsedInts == (-MaxParsed)..MaxParsed

\* the numbers of the model: whole and half numbers, NaN and the infinities
Numbers ==
    {Decimal(i, half) : i \in ParsedInts, half \in BOOLEAN} \cup {NaN, PosInf, NegInf}

Texts ==
    {DecimalText(i, half) : i \in ParsedInts, half \in BOOLEAN}
        \cup {PrefixedText(i) : i \in ParsedInts}
        \cup {ExponentText(i) : i \in ParsedInts}
        \cup {InfinityText(sign) : sign \in {-1, 1}}
        \cup {LongDigitsText(sign) : sign \in {-1, 1}}
        \cup {GarbageText}

\* the arguments of a call: string | number | undefined, and null
Values ==
    {Undefined, Null}
        \cup {[type |-> "number", num |-> num] : num \in Numbers}
        \cup {[type |-> "string", text |-> text] : text \in Texts}

\* the finite fallbacks of a call, 0 being the default
Fallbacks == {Num(i) : i \in {-1, 0, 1}}

InitParsers ==
    /\ proc = "OKX"
    /\ mode = "parsers"
    /\ instrumentDetails = <<>>
    /\ rawFills = <<>>
    /\ rawBills = <<>>
    /\ rawPositionRisks = <<>>
    /\ trades = <<>>
    /\ pc = "idle"
    /\ IdleTimeline
    /\ NewProcessor
    /\ NewProvider
    /\ parserValue \in Values
    /\ parserFallback \in Fallbacks
    /\ parserResult = NoResult
    /\ NoMerge
    /\ NoService
    /\ NoDownloads

\* SafeParsers.integer(value, fallback)
CallInteger ==
    /\ parserResult.fn = "none"
    /\ parserResult' = [fn |-> "integer",
                        value |-> SafeParsers_integer(parserValue, parserFallback)]
    /\ UNCHANGED <<parserValue, parserFallback, noteVars, serviceVars, queueVars>>
    /\ UNCHANGED <<batchVars, timelineVars, processorVars, providerVars>>

\* SafeParsers.float(value, fallback)
CallFloat ==
    /\ parserResult.fn = "none"
    /\ parserResult' = [fn |-> "float",
                        value |-> SafeParsers_float(parserValue, parserFallback)]
    /\ UNCHANGED <<parserValue, parserFallback, noteVars, serviceVars, queueVars>>
    /\ UNCHANGED <<batchVars, timelineVars, processorVars, providerVars>>

NextParsers == CallInteger \/ CallFloat

SpecParsers == InitParsers /\ [][NextParsers]_vars

----------------------------------------------------------------------------
(* NoteGenerator: mergeNoteContent on notes as sequences of lines *)

\* a line of a note: a '## 2.', '## 3.' or '## 5.' heading ("h2", "h3",
\* "h5"), the head of a timeline entry '- **<timestamp>** ...' ("item"), a
\* 'Decision Notes:' line with its text ("note"), the '| :--- |' line and a
\* data row of a legacy timeline table ("sep", "row"), any other line ("text")
Line(kind, ts, text) == [kind |-> kind, ts |-> ts, text |-> text]

\* regex.exec(content) for a pattern anchored at a line start: the first
\* line of the kind, 0 for no match
FirstLine(content, kind) ==
    FirstOf({i \in 1..Len(content) : content[i].kind = kind})

\* content.substring(start, end) between two line starts; substring swaps
\* its arguments when start > end
substring(content, start, end) ==
    IF start <= end THEN SubSeq(content, start, end - 1)
    ELSE SubSeq(content, end, start - 1)

\* content.substring(start)
substringFrom(content, start) == SubSeq(content, start, Len(content))

\* block.split(/(?=^ *-\s*\*\*\d)/gm): a new chunk at every entry head
RECURSIVE splitItems(_, _, _)
splitItems(block, i, chunks) ==
    IF i > Len(block) THEN chunks
    ELSE splitItems(block, i + 1,
                    IF chunks = <<>> \/ block[i].kind = "item"
                    THEN Append(chunks, <<block[i]>>)
                    ELSE [chunks EXCEPT ![Len(chunks)] = Append(@, block[i])])

\* items.join('')
RECURSIVE joinItems(_)
joinItems(chunks) ==
    IF chunks = <<>> THEN <<>> ELSE Head(chunks) \o joinItems(Tail(chunks))

\* extractRegex matches the item: it starts with an entry head and holds a
\* Decision Notes line
HasNoteLine(itemStr) ==
    itemStr[1].kind = "item" /\ FirstLine(itemStr, "note") # 0

\* the loop over oldItems: notesMap.set(timestamp, note.trim()) for a note
\* that is not blank
RECURSIVE listNotes(_, _, _)
listNotes(oldItems, i, notesMap) ==
    IF i > Len(oldItems) THEN notesMap
    ELSE listNotes(oldItems, i + 1,
                   IF /\ HasNoteLine(oldItems[i])
                      /\ oldItems[i][FirstLine(oldItems[i], "note")].text # ""
                   THEN MapSet(notesMap, oldItems[i][1].ts,
                               oldItems[i][FirstLine(oldItems[i], "note")].text)
                   ELSE notesMap)

\* the loop over the lines of a legacy table: notesMap.set(timestamp, note)
\* for a data row with a note
RECURSIVE tableNotes(_, _, _)
tableNotes(lines, i, notesMap) ==
    IF i > Len(lines) THEN notesMap
    ELSE tableNotes(lines, i + 1,
                    IF lines[i].kind = "row" /\ lines[i].text # ""
                    THEN MapSet(notesMap, lines[i].ts, lines[i].text)
                    ELSE notesMap)

\* the notes of the old timeline block, by timestamp
notesOf(oldTimelineBlock) ==
    IF FirstLine(oldTimelineBlock, "sep") # 0
    THEN tableNotes(oldTimelineBlock, 1, <<>>)
    ELSE listNotes(splitItems(oldTimelineBlock, 1, <<>>), 1, <<>>)

\* itemStr.replace(decisionLineRegex, prefix + oldNote) for an item whose
\* timestamp has a note
mergedItem(itemStr, notesMap) ==
    IF HasNoteLine(itemStr) /\ MapHas(notesMap, itemStr[1].ts)
    THEN [itemStr EXCEPT ![FirstLine(itemStr, "note")].text =
                             MapGet(notesMap, itemStr[1].ts)]
    ELSE itemStr

\* newItems.map(...)
mergedItems(newItems, notesMap) ==
    [i \in 1..Len(newItems) |-> mergedItem(newItems[i], notesMap)]

\* the end of mergeTimelineSection, the four matches found
injectNotes(content, newStartIndex, newEndIndex, notesMap) ==
    IF notesMap = <<>> THEN content
    ELSE substring(content, 1, newStartIndex)
            \o joinItems(mergedItems(
                   splitItems(substring(content, newStartIndex, newEndIndex), 1, <<>>),
                   notesMap))
            \o substringFrom(content, newEndIndex)

mergeTimelineSection(old, new) ==
    IF \/ FirstLine(old, "h2") = 0 \/ FirstLine(old, "h3") = 0
       \/ FirstLine(new, "h2") = 0 \/ FirstLine(new, "h3") = 0
    THEN new
    ELSE injectNotes(new, FirstLine(new, "h2"), FirstLine(new, "h3"),
                     notesOf(substring(old, FirstLine(old, "h2"), FirstLine(old, "h3"))))

\* the old markers are there and in order: the guards at lines 216 and 223
\* with the comparison the wrong way round, what C24 rules out
oldMarkersUsable_Swapped(old) ==
    /\ FirstLine(old, "h3") # 0
    /\ FirstLine(old, "h5") # 0
    /\ FirstLine(old, "h3") > FirstLine(old, "h5")

\* the old markers are there and in order: the guards at lines 216 and 223
oldMarkersUsable(old) ==
    /\ FirstLine(old, "h3") # 0
    /\ FirstLine(old, "h5") # 0
    /\ FirstLine(old, "h3") < FirstLine(old, "h5")

\* the new markers are there: the guard at line 234
newMarkersUsable(new) ==
    FirstLine(new, "h3") # 0 /\ FirstLine(new, "h5") # 0

\* oldContent.substring(startIndex, endIndex)
userContentBlock(old) == substring(old, FirstLine(old, "h3"), FirstLine(old, "h5"))

mergeNoteContent(old, new) ==
    IF ~oldMarkersUsable(old) \/ ~newMarkersUsable(new) THEN new
    ELSE mergeTimelineSection(
             old,
             substring(new, 1, FirstLine(new, "h3"))
                 \o userContentBlock(old)
                 \o substringFrom(new, FirstLine(new, "h5")))

----------------------------------------------------------------------------
(* mergeNoteContent called on its own *)

NoteTimestamps == 1..MaxNoteTs

\* the lines of a timeline entry as generateObsidianNote writes them: the
\* head, the data line, the Decision Notes line
EntryLines(entry, data) ==
    <<Line("item", entry.ts, ""), Line("text", 0, data), Line("note", 0, entry.text)>>

RECURSIVE TimelineLines(_, _)
TimelineLines(entries, data) ==
    IF entries = <<>> THEN <<>>
    ELSE EntryLines(Head(entries), data) \o TimelineLines(Tail(entries), data)

\* timelines of up to MaxNoteItems entries with notes from the given texts
Timelines(texts, data) ==
    {TimelineLines(entries, data) :
        entries \in UNION {[1..n -> [ts : NoteTimestamps, text : texts]] :
                              n \in 0..MaxNoteItems}}

\* a legacy timeline table of one data row
TableTimelines ==
    {<<Line("sep", 0, ""), Line("row", ts, text)>> :
        ts \in NoteTimestamps, text \in {"", "a"}}

\* the sections after the timeline: the markers that are there, in their
\* order, each followed by a body line
Section(marker, body) == <<Line(marker, 0, ""), Line("text", 0, body)>>

Sections(plan, raw) ==
    {<<>>, Section("h3", plan), Section("h5", raw),
     Section("h3", plan) \o Section("h5", raw),
     Section("h5", raw) \o Section("h3", plan)}

\* a note: the front matter and overview, the timeline with or without its
\* heading, the sections
Notes(front, timelines, sections) ==
    {<<Line("text", 0, front)>> \o heading \o timeline \o rest :
        heading \in {<<>>, <<Line("h2", 0, "")>>},
        timeline \in timelines, rest \in sections}

\* the note in the vault: an earlier generated note with the user's plan and
\* decision notes "a" and "b", or a legacy note
OldNotes ==
    Notes("old overview", Timelines({"", "a", "b"}, "old data") \cup TableTimelines,
          Sections("my plan", "old raw data"))

\* the newly generated note: its decision notes are empty
NewNotes ==
    Notes("new overview", Timelines({""}, "new data"),
          Sections("plan template", "new raw data"))

InitNotes ==
    /\ proc = "OKX"
    /\ mode = "notes"
    /\ instrumentDetails = <<>>
    /\ rawFills = <<>>
    /\ rawBills = <<>>
    /\ rawPositionRisks = <<>>
    /\ trades = <<>>
    /\ pc = "idle"
    /\ IdleTimeline
    /\ NewProcessor
    /\ NewProvider
    /\ NoParserCall
    /\ NoService
    /\ NoDownloads
    /\ oldContent \in OldNotes
    /\ newContent \in NewNotes
    /\ mergedContent = NotMerged

\* mergeNoteContent(oldContent, newContent)
MergeNoteContent ==
    /\ ~mergedContent.done
    /\ mergedContent' = [done |-> TRUE,
                         content |-> mergeNoteContent(oldContent, newContent)]
    /\ UNCHANGED <<oldContent, newContent, parserVars, serviceVars, queueVars>>
    /\ UNCHANGED <<batchVars, timelineVars, processorVars, providerVars>>

NextNotes == MergeNoteContent

SpecNotes == InitNotes /\ [][NextNotes]_vars

----------------------------------------------------------------------------
(* TimelineUtils.aggregateEvents called on its own *)

EventActions == {"OPEN", "ADD", "REDUCE", "CLOSE"}

\* the events of a list: unit size and fee, the price one above the
\* timestamp, ids that may repeat, in any order of timestamps
Events ==
    {[timestamp |-> ts, action |-> action, size |-> Num(1), price |-> Num(ts + 1),
      tradeId |-> <<id>>, orderId |-> <<id>>, fee |-> Num(1), feeCcy |-> "USDT",
      notes |-> "undefined"] :
        ts \in 0..MaxEventTs, action \in EventActions, id \in 1..MaxEventId}

\* "groups": events inside one merge window with sizes from zero on, the
\* price one above the timestamp and the fee one above the size
SizedEvents ==
    {[timestamp |-> ts, action |-> action, size |-> Num(sz), price |-> Num(ts + 1),
      tradeId |-> <<1>>, orderId |-> <<1>>, fee |-> Num(sz + 1), feeCcy |-> "USDT",
      notes |-> "undefined"] :
        ts \in 0..(mergeWindowMs - 1), action \in EventActions, sz \in 0..MaxEventSz}

EventChoices == IF mode = "groups" THEN SizedEvents ELSE Events

\* no batch is processed while aggregateEvents is called on its own
IdleBatch ==
    /\ proc = "OKX"
    /\ mode = "timeline"
    /\ instrumentDetails = <<>>
    /\ rawFills = <<>>
    /\ rawBills = <<>>
    /\ rawPositionRisks = <<>>
    /\ trades = <<>>
    /\ pc = "idle"
    /\ NewProcessor
    /\ NewProvider
    /\ NoParserCall
    /\ NoMerge
    /\ NoService
    /\ NoDownloads

InitTimeline ==
    /\ IdleBatch
    /\ executionEvents = <<>>
    /\ aggregated = <<>>
    /\ reaggregated = <<>>
    /\ timelinePc = "build"

\* the caller puts one more event on the list
PushTimelineEvent ==
    /\ timelinePc = "build"
    /\ Len(executionEvents) < MaxEvents
    /\ \E e \in EventChoices : executionEvents' = Append(executionEvents, e)
    /\ UNCHANGED <<aggregated, reaggregated, timelinePc>>
    /\ UNCHANGED notTimeline

\* aggregated = TimelineUtils.aggregateEvents(executionEvents)
Aggregate ==
    /\ timelinePc = "build"
    /\ aggregated' = aggregateEvents(executionEvents)
    /\ timelinePc' = "once"
    /\ UNCHANGED <<executionEvents, reaggregated>>
    /\ UNCHANGED notTimeline

\* reaggregated = TimelineUtils.aggregateEvents(aggregated)
Reaggregate ==
    /\ timelinePc = "once"
    /\ reaggregated' = aggregateEvents(aggregated)
    /\ timelinePc' = "twice"
    /\ UNCHANGED <<executionEvents, aggregated>>
    /\ UNCHANGED notTimeline

NextTimeline == PushTimelineEvent \/ Aggregate \/ Reaggregate

SpecTimeline == InitTimeline /\ [][NextTimeline]_vars

\* aggregateEvents on events of any size
InitGroups ==
    /\ proc = "OKX"
    /\ mode = "groups"
    /\ instrumentDetails = <<>>
    /\ rawFills = <<>>
    /\ rawBills = <<>>
    /\ rawPositionRisks = <<>>
    /\ trades = <<>>
    /\ pc = "idle"
    /\ NewProcessor
    /\ NewProvider
    /\ NoParserCall
    /\ NoMerge
    /\ NoService
    /\ NoDownloads
    /\ executionEvents = <<>>
    /\ aggregated = <<>>
    /\ reaggregated = <<>>
    /\ timelinePc = "build"

SpecGroups == InitGroups /\ [][NextTimeline]_vars

----------------------------------------------------------------------------
(* Order independence *)

BinanceProcessors == {"UM", "CM", "SPOT", "MARGIN"}

\* the orders an array of n elements can be handed over in
Perms(n) == {f \in [1..n -> 1..n] : \A i, j \in 1..n : f[i] = f[j] => i = j}

Permute(s, f) == [i \in 1..Len(s) |-> s[f[i]]]

\* every order of the processed batch gives the trades that were returned
SameForEveryOrder ==
    \A f \in Perms(Len(rawFills)) :
        processAllData(proc, Permute(rawFills, f), rawBills, instrumentDetails, rawPositionRisks) = trades

\* no two fills of the batch share both timestamp and fill id
DistinctSortKeys ==
    \A i, j \in 1..Len(rawFills) :
        (rawFills[i].ts = rawFills[j].ts /\ rawFills[i].tradeId = rawFills[j].tradeId)
            => i = j

\* C1: on each Binance processor (USDT-margined, coin-margined, spot, margin)
\* processAllData returns the same trade list, with the same metrics and
\* timelines, for every permutation of the batch, fills that share a timestamp
\* included.
C1_BinanceOrderIndependent ==
    (pc = "done" /\ proc \in BinanceProcessors) => SameForEveryOrder

\* C2: on the OKX processor, for a batch in which no two fills share both
\* timestamp and fill id, processAllData returns the same trade list and the
\* same timelines for every permutation of the batch.
C2_OkxOrderIndependent ==
    (pc = "done" /\ proc = "OKX" /\ DistinctSortKeys) => SameForEveryOrder

\* an OKX batch of three distinct fills, two of them at the same timestamp
\* and told apart by fill id only, that was folded into a closed trade
C2_Witness ==
    /\ pc = "done" /\ proc = "OKX" /\ DistinctSortKeys
    /\ Len(rawFills) = MaxFills
    /\ \E i \in 1..(Len(rawFills) - 1) :
          /\ rawFills[i].ts = rawFills[i + 1].ts
          /\ rawFills[i].side # rawFills[i + 1].side
    /\ \E k \in 1..Len(trades) : trades[k].status = "closed"

----------------------------------------------------------------------------
(* Per-trade invariants of the returned trades *)

\* C3: every trade returned by processAllData, on every processor, has
\* netPnl = realizedPnl - totalCommission + totalFundingFee on its final fields.
C3_NetPnlFormula ==
    pc = "done" =>
        \A k \in 1..Len(trades) :
            trades[k].netPnl =
                FAdd(FSub(trades[k].realizedPnl, trades[k].totalCommission),
                     trades[k].totalFundingFee)

\* a returned trade with a realised PnL, commissions and funding fees, none zero
C3_Witness ==
    /\ pc = "done"
    /\ \E k \in 1..Len(trades) :
          /\ trades[k].realizedPnl # Zero
          /\ trades[k].totalCommission # Zero
          /\ trades[k].totalFundingFee # Zero
          /\ trades[k].netPnl # trades[k].realizedPnl

\* the running size of a trade is zero within the tolerance
ZeroRunningSize(trade) == FLe(FAbs(trade._currentPositionSize), Tolerance)

\* C4: a returned trade is CLOSED if and only if its running position size is
\* zero within the tolerance: no OPEN trade has a zero running size, no CLOSED
\* trade a non-zero one.
C4_ClosedIffZeroSize ==
    pc = "done" =>
        \A k \in 1..Len(trades) :
            (trades[k].status = "closed") <=> ZeroRunningSize(trades[k])

----------------------------------------------------------------------------
(* Open-close pairs *)

\* the places in the processed batch of the fills for one position side
KeyIndices(posSide) == {i \in 1..Len(rawFills) : rawFills[i].posSide = posSide}

\* the places in the result of the trades for one position side
TradesOf(posSide) == {k \in 1..Len(trades) : trades[k].id[2] = posSide}

\* the fills at i and j are all the fills of the position side: an opening
\* fill, then an opposite fill of the same size
IsOpenClosePair(posSide, i, j) ==
    /\ i < j
    /\ KeyIndices(posSide) = {i, j}
    /\ rawFills[i].side = (IF posSide = "long" THEN "buy" ELSE "sell")
    /\ rawFills[j].side = (IF posSide = "long" THEN "sell" ELSE "buy")
    /\ rawFills[i].fillSz = rawFills[j].fillSz

\* the contract value of the batch's instrument when the metadata names it
KnownContractValue == instrumentDetails[1].ctVal.v

\* C5: on the linear processors (OKX, Binance USDT-margined), a position key
\* with one opening fill of s contracts at p1 followed by one opposite fill of
\* s contracts at p2, with contract value c, gives exactly one CLOSED trade
\* with averageEntryPrice p1, averageExitPrice p2 and realizedPnl
\* (p2 - p1) * s * c for a long, (p1 - p2) * s * c for a short.
C5_LinearOpenClosePair ==
    (pc = "done" /\ proc \in {"OKX", "UM"}) =>
        \A posSide \in {"long", "short"} : \A i, j \in 1..Len(rawFills) :
            IsOpenClosePair(posSide, i, j) =>
                LET p1 == rawFills[i].fillPx.v
                    p2 == rawFills[j].fillPx.v
                    sz == rawFills[i].fillSz.v
                    c == IF instrumentDetails = <<>> THEN 1 ELSE KnownContractValue
                    sign == IF posSide = "long" THEN 1 ELSE -1
                IN  \E k \in 1..Len(trades) :
                        /\ TradesOf(posSide) = {k}
                        /\ trades[k].status = "closed"
                        /\ trades[k].averageEntryPrice = Num(p1)
                        /\ trades[k].averageExitPrice = Num(p2)
                        /\ trades[k].realizedPnl = Num(sign * (p2 - p1) * sz * c)

\* a short opened and closed at different prices on a linear processor, with a
\* contract value from the metadata and a hedge leg on the long side
C5_Witness ==
    /\ pc = "done" /\ proc \in {"OKX", "UM"} /\ instrumentDetails # <<>>
    /\ \E i, j \in 1..Len(rawFills) :
          /\ IsOpenClosePair("short", i, j)
          /\ rawFills[i].fillPx # rawFills[j].fillPx
    /\ KeyIndices("long") # {}
    /\ \E k \in 1..Len(trades) : trades[k].direction = "short" /\ trades[k].realizedPnl # Zero

\* C6: on the coin-margined processor, a position opened with n contracts at
\* p1 and fully closed by n contracts at p2, with the instrument's contract
\* value v USD, gives one CLOSED trade with realizedPnl n * v * (1/p1 - 1/p2)
\* for a long, the negation for a short, and pnlCurrency the instrument's base
\* currency.
C6_InverseOpenClosePair ==
    (pc = "done" /\ proc = "CM" /\ instrumentDetails # <<>>) =>
        \A posSide \in {"long", "short"} : \A i, j \in 1..Len(rawFills) :
            IsOpenClosePair(posSide, i, j) =>
                LET p1 == rawFills[i].fillPx.v
                    p2 == rawFills[j].fillPx.v
                    n == rawFills[i].fillSz.v
                    v == KnownContractValue
                    sign == IF posSide = "long" THEN 1 ELSE -1
                IN  \E k \in 1..Len(trades) :
                        /\ TradesOf(posSide) = {k}
                        /\ trades[k].status = "closed"
                        /\ trades[k].realizedPnl = Norm(sign * n * v * (p2 - p1), p1 * p2)
                        /\ trades[k].pnlCurrency = instrumentDetails[1].baseCcy

\* a coin-margined long opened and closed at different prices
C6_Witness ==
    /\ pc = "done" /\ proc = "CM" /\ instrumentDetails # <<>>
    /\ \E i, j \in 1..Len(rawFills) :
          /\ IsOpenClosePair("long", i, j)
          /\ rawFills[i].fillPx # rawFills[j].fillPx
    /\ \E k \in 1..Len(trades) :
          /\ trades[k].direction = "long"
          /\ trades[k].realizedPnl # Zero
          /\ trades[k].pnlCurrency = "BTC"

----------------------------------------------------------------------------
(* The fold, fill by fill *)

\* the fold's state after the first k fills of the processed batch
FoldAfter(k) == processFills(proc, EmptyFold, SubSeq(rawFills, 1, k), instrumentDetails)

\* the open trades of a fold state
OpenTrades(st) == {st.openPositions[i].trade : i \in 1..Len(st.openPositions)}

IsBuy(fill) == fill.side = "buy"

\* the fill moves against the trade's direction
IsClosingDirection(trade, fill) ==
    (trade.direction = "long" /\ ~IsBuy(fill)) \/ (trade.direction = "short" /\ IsBuy(fill))

DirectionSign(trade) == IF trade.direction = "long" THEN Num(1) ELSE Num(-1)

Opposite(direction) == IF direction = "long" THEN "short" ELSE "long"

\* C7: on the margin processor, a fill in the closing direction whose size
\* exceeds the absolute position by more than the tolerance is split: the
\* existing trade is reduced by exactly the prior position and becomes CLOSED,
\* and a new OPEN trade of the opposite direction takes its place under the
\* key, with totalSize = fill size - prior position and averageEntryPrice =
\* the fill price. A batch of an opening fill and such a fill returns exactly
\* two trades, the CLOSED one and the OPEN one.
C7_MarginFlip ==
    (pc = "done" /\ proc = "MARGIN") =>
        \A k \in 1..Len(rawFills) : \A t \in OpenTrades(FoldAfter(k - 1)) :
            LET before == FoldAfter(k - 1)
                after == FoldAfter(k)
                fill == rawFills[k]
                size == Num(fill.fillSz.v)
                price == Num(fill.fillPx.v)
                prior == FAbs(t._currentPositionSize)
            IN  (IsClosingDirection(t, fill) /\ FGt(size, FAdd(prior, Tolerance))) =>
                    /\ Len(after.closedTrades) = Len(before.closedTrades) + 1
                    /\ LET closed == Last(after.closedTrades)
                       IN  /\ closed.id = t.id
                           /\ closed.status = "closed"
                           /\ closed._closingSizeAccumulator =
                                  FAdd(t._closingSizeAccumulator, prior)
                           /\ closed.realizedPnl =
                                  FAdd(t.realizedPnl,
                                       FMul(FMul(FSub(price, t.averageEntryPrice), prior),
                                            DirectionSign(t)))
                    /\ \E n \in OpenTrades(after) :
                          /\ OpenTrades(after) = {n}
                          /\ n.status = "open"
                          /\ n.direction = Opposite(t.direction)
                          /\ n.totalSize = FSub(size, prior)
                          /\ n.averageEntryPrice = price
                    /\ k = 2 /\ Len(rawFills) = 2 =>
                          /\ Len(trades) = 2
                          /\ trades[1].status = "closed" /\ trades[1].direction = t.direction
                          /\ trades[2].status = "open"
                          /\ trades[2].direction = Opposite(t.direction)
                          /\ trades[2].totalSize = FSub(size, prior)

\* a margin short flipped into a long at another price: a CLOSED short with a
\* realised PnL and an OPEN long
C7_Witness ==
    /\ pc = "done" /\ proc = "MARGIN"
    /\ Len(rawFills) = 2
    /\ ~IsBuy(rawFills[1]) /\ IsBuy(rawFills[2])
    /\ rawFills[2].fillSz.v > rawFills[1].fillSz.v + FLOATING_POINT_TOLERANCE
    /\ Len(trades) = 2
    /\ trades[1].status = "closed" /\ trades[1].direction = "short"
    /\ trades[1].realizedPnl # Zero
    /\ trades[2].status = "open" /\ trades[2].direction = "long"

\* C8: on the margin processor, a fill for an instrument with no open trade
\* always opens a trade, long for a buy and short for a sell; an opposite fill
\* of equal size then closes it with realizedPnl (exit - entry) * size for a
\* long and (entry - exit) * size for a short.
C8_MarginFirstFillOpens ==
    (pc = "done" /\ proc = "MARGIN") =>
        \A k \in 1..Len(rawFills) :
            LET before == FoldAfter(k - 1)
                after == FoldAfter(k)
                fill == rawFills[k]
            IN  OpenTrades(before) = {} =>
                    /\ after.closedTrades = before.closedTrades
                    /\ \E n \in OpenTrades(after) :
                          /\ OpenTrades(after) = {n}
                          /\ n.status = "open"
                          /\ n.direction = (IF IsBuy(fill) THEN "long" ELSE "short")
                          /\ n.entryTime = fill.ts.v
                          /\ n.totalSize = Num(fill.fillSz.v)
                          /\ n.averageEntryPrice = Num(fill.fillPx.v)
                    /\ (/\ k < Len(rawFills)
                        /\ rawFills[k + 1].side # fill.side
                        /\ rawFills[k + 1].fillSz = fill.fillSz) =>
                          LET then == FoldAfter(k + 1)
                              closed == Last(then.closedTrades)
                              entry == fill.fillPx.v
                              exit == rawFills[k + 1].fillPx.v
                              size == fill.fillSz.v
                          IN  /\ OpenTrades(then) = {}
                              /\ Len(then.closedTrades) = Len(before.closedTrades) + 1
                              /\ closed.status = "closed"
                              /\ closed.entryTime = fill.ts.v
                              /\ closed.realizedPnl =
                                     Num(IF IsBuy(fill) THEN (exit - entry) * size
                                         ELSE (entry - exit) * size)

\* a margin batch that starts with a sell, closed by a buy of equal size at
\* another price: a CLOSED short with a realised PnL
C8_Witness ==
    /\ pc = "done" /\ proc = "MARGIN"
    /\ Len(rawFills) >= 2
    /\ ~IsBuy(rawFills[1]) /\ IsBuy(rawFills[2])
    /\ rawFills[1].fillSz = rawFills[2].fillSz
    /\ rawFills[1].fillPx # rawFills[2].fillPx
    /\ trades # <<>>
    /\ trades[1].status = "closed" /\ trades[1].direction = "short"
    /\ trades[1].realizedPnl # Zero

----------------------------------------------------------------------------
(* Orphan fills *)

\* the fold state holds an open position for the fill's key
HasOpenFor(st, fill) ==
    \E t \in OpenTrades(st) :
        t.symbol = fill.instId /\ (proc = "SPOT" \/ t.direction = fill.posSide)

\* not an opening fill: long+sell, short+buy; on spot any sell
IsNotOpening(fill) ==
    IF proc = "SPOT" THEN ~IsBuy(fill)
    ELSE (fill.posSide = "long" /\ ~IsBuy(fill)) \/ (fill.posSide = "short" /\ IsBuy(fill))

RemoveAt(s, k) == [i \in 1..(Len(s) - 1) |-> IF i < k THEN s[i] ELSE s[i + 1]]

\* C9: on the linear, inverse and spot processors, a fill that is not an
\* opening fill and arrives for a key with no open builder is dropped: the
\* fold's trades stay as they were, and the batch gives the result it gives
\* without the orphan.
C9_OrphansDropped ==
    (pc = "done" /\ proc \in {"OKX", "UM", "CM", "SPOT"}) =>
        \A k \in 1..Len(rawFills) :
            (~HasOpenFor(FoldAfter(k - 1), rawFills[k]) /\ IsNotOpening(rawFills[k])) =>
                /\ FoldAfter(k) = FoldAfter(k - 1)
                /\ processAllData(proc, RemoveAt(rawFills, k), rawBills, instrumentDetails, rawPositionRisks)
                      = trades

\* an orphan sell ahead of a later open-close cycle for the same key
C9_Witness ==
    /\ pc = "done" /\ proc \in {"OKX", "UM", "CM", "SPOT"}
    /\ Len(rawFills) = MaxFills
    /\ IsNotOpening(rawFills[1])
    /\ \A k \in 2..Len(rawFills) : rawFills[k].posSide = rawFills[1].posSide
    /\ Len(trades) = 1
    /\ trades[1].status = "closed"
    /\ trades[1].entryTime = rawFills[2].ts.v

----------------------------------------------------------------------------
(* Funding attribution *)

\* the bill carries the funding type of the processor's exchange
IsFundingBill(bill) ==
    bill.type = (IF proc = "OKX" THEN OKX_BILL_TYPE_FUNDING ELSE BILL_TYPE_FUNDING_FEE)

\* the i-th bill of the batch was added to the k-th returned trade
AddedTo(k, i) == Contains(trades[k]._rawBills, i)

\* the sum of the balance changes of the bills added to the k-th trade
AddedFunding(k) ==
    Num(SeqSum([j \in 1..Len(trades[k]._rawBills) |->
                    rawBills[trades[k]._rawBills[j]].balChg.v]))

\* the bill's timestamp lies strictly between the trade's entry and exit
StrictlyInside(trade, bill) ==
    trade.entryTime < bill.ts.v /\ bill.ts.v < trade.exitTime

\* a bill of another instrument, of a non-funding type, or from before the
\* entry or after the exit
Foreign(trade, bill) ==
    \/ bill.instId # trade.symbol
    \/ ~IsFundingBill(bill)
    \/ bill.ts.v < trade.entryTime
    \/ bill.ts.v > trade.exitTime

\* on the Binance futures processors a trade listed before the k-th one, for
\* the same instrument, has the bill's timestamp within its entry and exit
TakenByEarlierTrade(k, bill) ==
    /\ proc # "OKX"
    /\ \E j \in 1..(k - 1) :
          /\ trades[j].symbol = bill.instId
          /\ trades[j].entryTime <= bill.ts.v
          /\ bill.ts.v <= trades[j].exitTime

\* C10 as stated: for every CLOSED trade of a linear or inverse processor,
\* each funding bill for its instrument with a timestamp strictly between its
\* entry and exit is added to its totalFundingFee, and no bill for another
\* instrument, of a non-funding type or from outside the entry-exit window is.
C10_FundingWindow ==
    (pc = "done" /\ proc \in FuturesProcessors) =>
        \A k \in 1..Len(trades) :
            trades[k].status = "closed" =>
                /\ trades[k].totalFundingFee = AddedFunding(k)
                /\ \A i \in 1..Len(rawBills) :
                      /\ (/\ IsFundingBill(rawBills[i])
                          /\ rawBills[i].instId = trades[k].symbol
                          /\ StrictlyInside(trades[k], rawBills[i])) => AddedTo(k, i)
                      /\ Foreign(trades[k], rawBills[i]) => ~AddedTo(k, i)

\* C10, amended: the bill strictly inside the window is added to the CLOSED
\* trade unless, on a Binance futures processor, a trade listed earlier for
\* the same instrument has the bill within its own window and takes it; no
\* bill for another instrument, of a non-funding type or from outside the
\* window is added.
C10_FundingWindowFirstMatch ==
    (pc = "done" /\ proc \in FuturesProcessors) =>
        \A k \in 1..Len(trades) :
            trades[k].status = "closed" =>
                /\ trades[k].totalFundingFee = AddedFunding(k)
                /\ \A i \in 1..Len(rawBills) :
                      /\ (/\ IsFundingBill(rawBills[i])
                          /\ rawBills[i].instId = trades[k].symbol
                          /\ StrictlyInside(trades[k], rawBills[i])
                          /\ ~TakenByEarlierTrade(k, rawBills[i])) => AddedTo(k, i)
                      /\ Foreign(trades[k], rawBills[i]) => ~AddedTo(k, i)

\* two CLOSED hedge legs on a Binance futures processor with one funding bill
\* strictly inside both windows: the first listed has it, the second has not
C10_Witness ==
    /\ pc = "done" /\ proc \in {"UM", "CM"}
    /\ Len(trades) = 2 /\ Len(rawBills) >= 1
    /\ trades[1].status = "closed" /\ trades[2].status = "closed"
    /\ IsFundingBill(rawBills[1])
    /\ StrictlyInside(trades[1], rawBills[1]) /\ StrictlyInside(trades[2], rawBills[1])
    /\ AddedTo(1, 1) /\ ~AddedTo(2, 1)
    /\ trades[1].totalFundingFee # Zero /\ trades[2].totalFundingFee = Zero

----------------------------------------------------------------------------
(* One trade per funding bill *)

\* the trades of the result that took bill i
TakersOf(i) == {k \in 1..Len(trades) : AddedTo(k, i)}

\* C11: on the OKX, USDT-margined and coin-margined processors each funding
\* bill is added to at most one trade of the result, so no bill is counted
\* twice in the sum of the funding fees
C11_BillCountedOnce ==
    (pc = "done" /\ proc \in FuturesProcessors) =>
        \A i \in 1..Len(rawBills) : Cardinality(TakersOf(i)) <= 1

----------------------------------------------------------------------------
(* Idempotence of the aggregation *)

\* the fields of an event that a timeline shows
Shown(e) ==
    [timestamp |-> e.timestamp, action |-> e.action, size |-> e.size,
     price |-> e.price, fee |-> e.fee]

ShownList(events) == [i \in 1..Len(events) |-> Shown(events[i])]

\* C12: aggregating the result of an aggregation returns the same events,
\* in count, order, timestamps, actions, sizes, prices and fees
C12_AggregateIdempotent ==
    timelinePc = "twice" => ShownList(reaggregated) = ShownList(aggregated)

----------------------------------------------------------------------------
(* Trade identities *)

\* C13: the ids (instrument, side, entry timestamp) of the trades of one
\* processAllData result are pairwise distinct, also when a position is
\* closed and opened again within one timestamp
C13_DistinctTradeIds ==
    pc = "done" =>
        \A i, j \in 1..Len(trades) : i # j => trades[i].id # trades[j].id

----------------------------------------------------------------------------
(* Clamped reduction *)

ClampingProcessors == {"OKX", "UM", "CM", "SPOT"}

\* the open trade of a fold state under the fill's key
OpenFor(st, fill) ==
    CHOOSE t \in OpenTrades(st) :
        t.symbol = fill.instId /\ (proc = "SPOT" \/ t.direction = fill.posSide)

\* the trade a fill was folded into: still open, or the last one closed
TradeAfter(st, fill) ==
    IF HasOpenFor(st, fill) THEN OpenFor(st, fill) ELSE Last(st.closedTrades)

\* contracts per unit of running size: the linear builders keep the running
\* size in contracts times contract value, the others in the fill's own unit
SizeFactor ==
    IF proc \in {"OKX", "UM"} /\ instrumentDetails # <<>> THEN KnownContractValue ELSE 1

\* the k-th fill of the batch reduces the open trade of its key and is larger
\* than what is open
Overshoots(k) ==
    /\ HasOpenFor(FoldAfter(k - 1), rawFills[k])
    /\ IsClosingDirection(OpenFor(FoldAfter(k - 1), rawFills[k]), rawFills[k])
    /\ FGt(Num(rawFills[k].fillSz.v * SizeFactor),
           OpenFor(FoldAfter(k - 1), rawFills[k])._currentPositionSize)

\* the k-th fill cut down to the size that is open before it
ClampedFill(k) ==
    [rawFills[k] EXCEPT
       !.fillSz = Str(OpenFor(FoldAfter(k - 1), rawFills[k])._currentPositionSize.n
                          \div SizeFactor)]

\* the trade the fill is folded into after the first k - 1 fills of the batch
FoldedInto(k, fill) ==
    TradeAfter(ProcessFill(proc, FoldAfter(k - 1), fill, instrumentDetails), fill)

\* no trade of the fold state has a negative running size
NoNegativeSize(st) ==
    /\ \A t \in OpenTrades(st) : ~FLt(t._currentPositionSize, Zero)
    /\ \A i \in 1..Len(st.closedTrades) :
          ~FLt(st.closedTrades[i]._currentPositionSize, Zero)

\* C14: on the OKX, USDT-margined, coin-margined and spot processors the
\* running size is never negative after any fill, and a reducing fill larger
\* than the open size acts as a fill of exactly the open size: it closes the
\* trade with the realized PnL and the closing totals of that smaller fill
C14_ReductionClamped ==
    (pc = "done" /\ proc \in ClampingProcessors) =>
        \A k \in 1..Len(rawFills) :
            /\ NoNegativeSize(FoldAfter(k))
            /\ Overshoots(k) =>
                  /\ FoldedInto(k, rawFills[k]).status = "closed"
                  /\ FoldedInto(k, rawFills[k]).realizedPnl
                        = FoldedInto(k, ClampedFill(k)).realizedPnl
                  /\ FoldedInto(k, rawFills[k])._closingSizeAccumulator
                        = FoldedInto(k, ClampedFill(k))._closingSizeAccumulator
                  /\ FoldedInto(k, rawFills[k])._currentPositionSize = Zero

\* a short closed at a profit by a buy larger than the open size
C14_Witness ==
    /\ pc = "done" /\ proc \in ClampingProcessors
    /\ \E k \in 1..Len(rawFills) :
          /\ Overshoots(k)
          /\ FoldedInto(k, rawFills[k]).direction = "short"
          /\ FGt(FoldedInto(k, rawFills[k]).realizedPnl, Zero)

----------------------------------------------------------------------------
(* The fills of the open positions *)

\* the raw fills folded into the OPEN trades of a result, trade by trade
RECURSIVE OpenTradeFills(_, _)
OpenTradeFills(result, i) ==
    IF i > Len(result) THEN <<>>
    ELSE (IF result[i].status = "open" THEN result[i]._rawFills ELSE <<>>)
         \o OpenTradeFills(result, i + 1)

HasStatus(result, status) == \E i \in 1..Len(result) : result[i].status = status

\* C15: on the OKX processor getOpenPositionFills() is empty before any
\* processAllData call, and after a call it returns exactly the raw fills
\* folded into the OPEN trades of that call's result, each once: nothing of a
\* CLOSED trade, no orphan, nothing of an earlier call
C15_OpenPositionFills ==
    /\ pc = "fetch" => getOpenPositionFills(lastOpenPositions) = <<>>
    /\ pc \in {"first", "done"} =>
          getOpenPositionFills(lastOpenPositions) = OpenTradeFills(trades, 1)

\* a second call that closes the position the first call left open and
\* leaves another one open
C15_Witness ==
    /\ pc = "done"
    /\ HasStatus(previousTrades, "open")
    /\ HasStatus(trades, "closed")
    /\ HasStatus(trades, "open")
    /\ Len(getOpenPositionFills(lastOpenPositions)) = 1
    /\ Len(rawFills) = MaxIncrementalFills

----------------------------------------------------------------------------
(* One call against two *)

\* the fields of a trade that its fills determine
FillDerived(t) ==
    [id |-> t.id, direction |-> t.direction, status |-> t.status,
     totalSize |-> t.totalSize, currentSize |-> t._currentPositionSize,
     averageEntryPrice |-> t.averageEntryPrice,
     averageExitPrice |-> t.averageExitPrice,
     realizedPnl |-> t.realizedPnl, totalCommission |-> t.totalCommission,
     entryTime |-> t.entryTime, exitTime |-> t.exitTime]

FillDerivedOf(result) == {FillDerived(result[i]) : i \in 1..Len(result)}

ClosedOf(result) == SelectSeq(result, LAMBDA t : t.status = "closed")

\* C16: processAllData(A) followed by processAllData(getOpenPositionFills()
\* followed by B) gives, in the fill-derived fields, the trades of one
\* processAllData(A followed by B): the trades closed inside A from the first
\* call, all others from the second
C16_IncrementalEquivalence ==
    pc = "done" =>
        /\ FillDerivedOf(ClosedOf(previousTrades) \o trades)
              = FillDerivedOf(processAllData(proc, rawFills, rawBills, instrumentDetails, rawPositionRisks))
        /\ Len(ClosedOf(previousTrades)) + Len(trades)
              = Len(processAllData(proc, rawFills, rawBills, instrumentDetails, rawPositionRisks))


----------------------------------------------------------------------------
(* A position that stays open across two syncs *)

\* the last-sync timestamp the first sync left
FirstSyncTimestamp == syncedTimestamp(previousTrades, 0)

\* the exchange's history as of the second sync
SyncedHistory ==
    SelectSeq(history, LAMBDA f : parseInt(f.ts) <= fillsMaxTs(rawFills))

\* the position of trade t is closed in the history as of the second sync
ClosedBySecondSync(t) ==
    \E j \in 1..Len(processAllData(proc, SyncedHistory, rawBills, instrumentDetails, rawPositionRisks)) :
        /\ processAllData(proc, SyncedHistory, rawBills, instrumentDetails, rawPositionRisks)[j].id = t.id
        /\ processAllData(proc, SyncedHistory, rawBills, instrumentDetails, rawPositionRisks)[j].status = "closed"

\* the trades of the second sync that are trade t, closed
ReturnedClosed(t) ==
    {k \in 1..Len(trades) :
        /\ trades[k].id = t.id
        /\ trades[k].entryTime = t.entryTime
        /\ trades[k].status = "closed"}

\* trade t of the first sync was open, the last-sync timestamp went past its
\* fills, and the second sync fetched its closing fill
CarriedOver(t) ==
    /\ t.status = "open"
    /\ fillsMaxTs(t._rawFills) < FirstSyncTimestamp
    /\ ClosedBySecondSync(t)

\* C17: with either provider, a position still OPEN at the end of one sync,
\* whose fills lie before the last-sync timestamp and whose closing fill the
\* next sync fetches, is returned by the next sync as one CLOSED trade with
\* the id and the entry time it had before
C17_ClosedAcrossSyncs ==
    syncs = MaxSyncs =>
        \A i \in 1..Len(previousTrades) :
            CarriedOver(previousTrades[i]) =>
                Cardinality(ReturnedClosed(previousTrades[i])) = 1

\* the same for the OKX provider alone
C17_OkxClosedAcrossSyncs ==
    proc = "OKX" => C17_ClosedAcrossSyncs
C17_OkxWitness ==
    /\ proc = "OKX" /\ syncs = MaxSyncs
    /\ \E i \in 1..Len(previousTrades) : CarriedOver(previousTrades[i])


----------------------------------------------------------------------------
(* Position-risk snapshots and the open trades *)

RiskInstrument(risk) == IF proc = "OKX" THEN risk.instId ELSE risk.symbol

RiskSide(risk) == IF proc = "OKX" THEN risk.posSide ELSE risk.positionSide

\* the snapshots of the batch for the instrument and position side of trade t,
\* letter case aside
SnapshotsFor(t) ==
    {i \in 1..Len(rawPositionRisks) :
        /\ RiskInstrument(rawPositionRisks[i]) = t.symbol
        /\ toLowerCase(RiskSide(rawPositionRisks[i])) = toLowerCase(t._rawFills[1].posSide)}

LastOf(hits) == CHOOSE k \in hits : \A j \in hits : j <= k

\* trade t carries the notional of the last snapshot for it
Annotated(t) ==
    t.currentNotionalValue
        = <<riskNotional(proc, rawPositionRisks[LastOf(SnapshotsFor(t))])>>

\* C18: after processAllData of a linear or inverse processor, an OPEN trade
\* for which the batch holds a position-risk snapshot of its instrument and
\* position side, letter case aside, carries that snapshot's notional as
\* currentNotionalValue, and no CLOSED trade carries one
C18_RiskAnnotation ==
    pc = "done" =>
        \A k \in 1..Len(trades) :
            IF trades[k].status = "open"
            THEN SnapshotsFor(trades[k]) # {} => Annotated(trades[k])
            ELSE trades[k].currentNotionalValue = <<>>

\* the same for one processor at a time
C18_OkxRiskAnnotation == proc = "OKX" => C18_RiskAnnotation
C18_CMRiskAnnotation == proc = "CM" => C18_RiskAnnotation
C18_OkxWitness ==
    /\ proc = "OKX" /\ pc = "done"
    /\ \E k \in 1..Len(trades) :
          /\ trades[k].status = "open"
          /\ SnapshotsFor(trades[k]) # {}
          /\ trades[k]._rawFills[1].posSide = "LONG"
    /\ \E k \in 1..Len(trades) : trades[k].status = "closed"


----------------------------------------------------------------------------
(* Fills without instrument metadata *)

\* metadata that gives the instrument of the batch a contract value of 1
UnitMetadata(p) ==
    <<[instId |-> InstIdOf(p), ctVal |-> Str(1),
       baseCcy |-> "BTC", quoteCcy |-> IF p = "CM" THEN "USD" ELSE "USDT"]>>

\* the batch has no metadata entry for the instrument of its fills
NoMetadata == ~HasInstrument(instrumentDetails, InstIdOf(proc))

\* the trades are those of the same batch with a contract value of 1
AsWithUnitContractValue ==
    trades = processAllData(proc, rawFills, rawBills, UnitMetadata(proc), rawPositionRisks)

\* C19: on every futures processor, the fills of a batch that has no metadata
\* entry for their instrument are processed as with a contract value of
\* exactly 1.0: the trades are those of the same batch with metadata whose
\* ctVal is 1
C19_DefaultContractValue ==
    (pc = "done" /\ proc \in FuturesProcessors /\ NoMetadata)
        => AsWithUnitContractValue

\* the same for the linear processors alone
C19_LinearDefaultContractValue ==
    (pc = "done" /\ proc \in {"OKX", "UM"} /\ NoMetadata)
        => AsWithUnitContractValue
C19_LinearWitness ==
    /\ pc = "done" /\ proc \in {"OKX", "UM"} /\ NoMetadata
    /\ \E k \in 1..Len(trades) : trades[k].status = "closed"


----------------------------------------------------------------------------
(* The results of SafeParsers *)

\* what the argument parses to under the function called
ParsedArgument ==
    IF parserResult.fn = "integer" THEN ParseIntText(StringOf(parserValue))
    ELSE ParseFloatText(StringOf(parserValue))

\* the argument is present and parses to a number
ArgumentParses ==
    /\ parserValue.type \in {"number", "string"}
    /\ ~IsNaN(ParsedArgument)

\* C20: SafeParsers.integer and SafeParsers.float, called with a string, a
\* number or an absent value and a finite fallback, return a finite number:
\* the parsed value when the argument parses, the fallback otherwise
C20_SafeParsersFinite ==
    parserResult.fn # "none" =>
        /\ IsFinite(parserResult.value)
        /\ parserResult.value
              = IF ArgumentParses THEN ParsedArgument ELSE parserFallback

\* the same without the finiteness of the result
C20_ParsedOrFallback ==
    parserResult.fn # "none" =>
        parserResult.value = IF ArgumentParses THEN ParsedArgument ELSE parserFallback
C20_FallbackWitness ==
    /\ parserResult.fn # "none"
    /\ ~ArgumentParses
    /\ parserValue.type = "string"
    /\ parserResult.value = Num(1)


----------------------------------------------------------------------------
(* Malformed numeric fields *)

\* the numeric fields of a trade
TradeNumbers(t) ==
    {t.totalSize, t.totalValue, t.averageEntryPrice, t.averageExitPrice,
     t.realizedPnl, t.totalCommission, t.totalFundingFee, t.netPnl,
     t.pnlPercentage, t._currentPositionSize}

\* the numeric fields of the events of a timeline
TimelineNumbers(timeline) ==
    UNION {{timeline[i].size, timeline[i].price, timeline[i].fee} :
              i \in 1..Len(timeline)}

\* no numeric field of the trade or of its timeline is NaN
NoNaN(t) ==
    \A x \in TradeNumbers(t) \cup TimelineNumbers(t.timeline) : ~IsNaN(x)

\* C21: for any batch, fills with malformed numeric fields included,
\* processAllData of every variant returns a trade list in which no numeric
\* field is NaN: a field that does not parse has been replaced by its fallback
C21_NoNaNField ==
    pc = "done" => \A k \in 1..Len(trades) : NoNaN(trades[k])

\* the same for the processors that parse with SafeParsers
C21_SafeParsersNoNaNField ==
    (pc = "done" /\ proc \in {"OKX", "UM"}) => \A k \in 1..Len(trades) : NoNaN(trades[k])
C21_SafeParsersWitness ==
    /\ pc = "done" /\ proc \in {"OKX", "UM"}
    /\ \E i \in 1..Len(rawFills) : ~rawFills[i].fillSz.ok
    /\ Len(trades) > 0


----------------------------------------------------------------------------
(* What processAllData leaves alone *)

\* a step that is a call of processAllData
IsProcessAllDataCall == pc = "fetch" /\ pc' = "done"

\* the caller's four arrays are after the call what they were before it
ArgumentsKept ==
    /\ rawFills' = rawFills
    /\ rawBills' = rawBills
    /\ instrumentDetails' = instrumentDetails
    /\ rawPositionRisks' = rawPositionRisks

\* C22: processAllData leaves its arguments alone: after the call the fill,
\* bill, instrument and position-risk arrays hold the same elements in the
\* same order as before, and of the processor's state only the OKX
\* processor's remembered open positions may change
C22_ArgumentsUnchanged ==
    [][IsProcessAllDataCall =>
          /\ ArgumentsKept
          /\ (proc # "OKX" => lastOpenPositions' = lastOpenPositions)]_vars

\* the same without the order of the fills: the fill array holds the same
\* records as before, each as often as before
C22_FillsPermuted ==
    [][IsProcessAllDataCall =>
          /\ \E f \in Perms(Len(rawFills)) : rawFills' = Permute(rawFills, f)
          /\ rawBills' = rawBills
          /\ instrumentDetails' = instrumentDetails
          /\ rawPositionRisks' = rawPositionRisks
          /\ (proc # "OKX" => lastOpenPositions' = lastOpenPositions)]_vars


----------------------------------------------------------------------------
(* Notes whose markers cannot be used *)

HasLine(content, kind) == \E i \in 1..Len(content) : content[i].kind = kind

\* the first line of kind a comes before the first line of kind b
ComesBefore(content, a, b) ==
    \E i \in 1..Len(content) :
        /\ content[i].kind = a
        /\ \A j \in 1..i : content[j].kind # b

\* a marker is missing from the old note, or its '## 5.' does not come after
\* its '## 3.', or a marker is missing from the new note
MarkersUnusable ==
    \/ ~HasLine(oldContent, "h3") \/ ~HasLine(oldContent, "h5")
    \/ ComesBefore(oldContent, "h5", "h3")
    \/ ~HasLine(newContent, "h3") \/ ~HasLine(newContent, "h5")

\* C24: mergeNoteContent returns the new content unchanged whenever the
\* '## 3.' or the '## 5.' marker is missing from the old content, the old
\* '## 5.' does not come after the old '## 3.', or either marker is missing
\* from the new content
C24_FallbackToNewContent ==
    (mergedContent.done /\ MarkersUnusable) => mergedContent.content = newContent
C24_Witness ==
    /\ mergedContent.done
    /\ ComesBefore(oldContent, "h5", "h3")
    /\ HasLine(oldContent, "h3")
    /\ HasLine(newContent, "h3") /\ HasLine(newContent, "h5")
    /\ \E i \in 1..Len(oldContent) : oldContent[i].text = "a"


----------------------------------------------------------------------------
(* What the user wrote, after an update *)

\* the timeline heading, '## 3.' and '## 5.' are there, in this order
WellFormed(content) ==
    /\ HasLine(content, "h2") /\ HasLine(content, "h3") /\ HasLine(content, "h5")
    /\ FirstLine(content, "h2") < FirstLine(content, "h3")
    /\ FirstLine(content, "h3") < FirstLine(content, "h5")

\* the timeline entries of a note with their notes: the heads between the
\* timeline heading and '## 3.', each with the text of its Decision Notes line
EntriesOf(content) ==
    SelectSeq(splitItems(substring(content, FirstLine(content, "h2"),
                                   FirstLine(content, "h3")), 1, <<>>),
              HasNoteLine)

NoteOf(itemStr) == itemStr[FirstLine(itemStr, "note")].text

\* entry i of the old note carries a note the user wrote
UserNote(i) == NoteOf(EntriesOf(oldContent)[i]) # ""

\* the merged note has as many entries as the old one and its entry i has the
\* timestamp and the note of the old entry i
NoteKept(i) ==
    /\ Len(EntriesOf(mergedContent.content)) = Len(EntriesOf(oldContent))
    /\ EntriesOf(mergedContent.content)[i][1].ts = EntriesOf(oldContent)[i][1].ts
    /\ NoteOf(EntriesOf(mergedContent.content)[i]) = NoteOf(EntriesOf(oldContent)[i])

\* some entry of the merged note has the timestamp and the note of old entry i
NoteFound(i) ==
    \E k \in 1..Len(EntriesOf(mergedContent.content)) :
        /\ EntriesOf(mergedContent.content)[k][1].ts = EntriesOf(oldContent)[i][1].ts
        /\ NoteOf(EntriesOf(mergedContent.content)[k]) = NoteOf(EntriesOf(oldContent)[i])

\* the lines with the text of the Decision Notes lines left out
WithoutNotes(content) ==
    [i \in 1..Len(content) |->
        IF content[i].kind = "note" THEN [content[i] EXCEPT !.text = ""] ELSE content[i]]

\* the user block of the old note is the block between the markers of the
\* merged note
UserBlockKept ==
    substring(mergedContent.content, FirstLine(mergedContent.content, "h3"),
              FirstLine(mergedContent.content, "h5"))
        = userContentBlock(oldContent)

\* outside the user block the merged note is the new note, Decision Notes aside
GeneratedPartsNew ==
    /\ WithoutNotes(substring(mergedContent.content, 1,
                              FirstLine(mergedContent.content, "h3")))
          = WithoutNotes(substring(newContent, 1, FirstLine(newContent, "h3")))
    /\ substringFrom(mergedContent.content, FirstLine(mergedContent.content, "h5"))
          = substringFrom(newContent, FirstLine(newContent, "h5"))

\* an old note in list form and a new note, both with their three headings
Updating ==
    /\ mergedContent.done
    /\ WellFormed(oldContent) /\ WellFormed(newContent)
    /\ ~HasLine(oldContent, "sep")

\* C23: updating a note keeps what the user wrote: the merged note holds the
\* old note's block from '## 3.' up to '## 5.' and, for each old timeline
\* entry, an entry with its timestamp and its Decision Notes, while the text
\* before '## 3.' and from '## 5.' on is that of the new note
C23_UserContentKept ==
    Updating =>
        /\ UserBlockKept
        /\ GeneratedPartsNew
        /\ \A i \in 1..Len(EntriesOf(oldContent)) : UserNote(i) => NoteFound(i)

\* the same when the new note has the entries of the old one, timestamp by
\* timestamp
SameEntries ==
    /\ Len(EntriesOf(newContent)) = Len(EntriesOf(oldContent))
    /\ \A i \in 1..Len(EntriesOf(oldContent)) :
          EntriesOf(newContent)[i][1].ts = EntriesOf(oldContent)[i][1].ts
C23_KeptForSameEntries ==
    (Updating /\ SameEntries) =>
        /\ UserBlockKept
        /\ GeneratedPartsNew
        /\ \A i \in 1..Len(EntriesOf(oldContent)) : UserNote(i) => NoteKept(i)

\* the same when, besides, no two entries share a timestamp
DistinctTimestamps ==
    \A i, j \in 1..Len(EntriesOf(oldContent)) :
        EntriesOf(oldContent)[i][1].ts = EntriesOf(oldContent)[j][1].ts => i = j
C23_KeptForDistinctEntries ==
    (Updating /\ SameEntries /\ DistinctTimestamps) =>
        /\ UserBlockKept
        /\ GeneratedPartsNew
        /\ \A i \in 1..Len(EntriesOf(oldContent)) : UserNote(i) => NoteKept(i)
C23_DistinctWitness ==
    /\ Updating /\ SameEntries /\ DistinctTimestamps
    /\ Len(EntriesOf(oldContent)) = MaxNoteItems
    /\ \A i \in 1..Len(EntriesOf(oldContent)) : UserNote(i)


----------------------------------------------------------------------------
(* The direction of a new trade *)

\* the position key the processor files a fill under
PositionKeyOf(fill) ==
    IF proc = "OKX" THEN <<fill.instId, toLowerCase(fill.posSide)>>
    ELSE <<fill.instId, fill.posSide>>

\* the direction the first fill of a trade stands for
SideSet(fill) == toLowerCase(fill.posSide) \in {"long", "short"}
FirstFillDirection(fill) ==
    IF SideSet(fill) THEN toLowerCase(fill.posSide)
    ELSE IF toLowerCase(fill.side) = "buy" THEN "long" ELSE "short"

\* the key of the k-th fill has no open builder when the fill is reached
NoOpenBuilder(k) == ~MapHas(FoldAfter(k - 1).openPositions, PositionKeyOf(rawFills[k]))

\* the trade the k-th fill opened is in the result
OpenedBy(k) == {i \in 1..Len(trades) : trades[i]._rawFills[1] = rawFills[k]}

\* C25: in the linear and inverse processors, a first fill for a position
\* key with no open builder whose position side is neither long nor short
\* opens a trade that is long for a buy and short for a sell; a trade whose
\* first fill has the position side long or short has that direction
C25_FirstFillDirection ==
    (pc = "done" /\ proc \in FuturesProcessors) =>
        /\ \A k \in 1..Len(rawFills) :
              (NoOpenBuilder(k) /\ ~SideSet(rawFills[k])) =>
                  \E i \in OpenedBy(k) :
                      trades[i].direction = FirstFillDirection(rawFills[k])
        /\ \A i \in 1..Len(trades) :
              SideSet(trades[i]._rawFills[1]) =>
                  trades[i].direction = toLowerCase(trades[i]._rawFills[1].posSide)

\* the same on OKX alone
C25_OkxFirstFillDirection ==
    (pc = "done" /\ proc = "OKX") =>
        /\ \A k \in 1..Len(rawFills) :
              (NoOpenBuilder(k) /\ ~SideSet(rawFills[k])) =>
                  \E i \in OpenedBy(k) :
                      trades[i].direction = FirstFillDirection(rawFills[k])
        /\ \A i \in 1..Len(trades) :
              SideSet(trades[i]._rawFills[1]) =>
                  trades[i].direction = toLowerCase(trades[i]._rawFills[1].posSide)
C25_OkxWitness ==
    /\ pc = "done" /\ proc = "OKX"
    /\ \E k \in 1..Len(rawFills) :
          /\ NoOpenBuilder(k) /\ rawFills[k].posSide = "net" /\ rawFills[k].side = "sell"
          /\ \E i \in OpenedBy(k) : trades[i].direction = "short"

\* on the Binance processors every trade has the direction of its first
\* fill's position side, and a fill with another position side opens none
C25_BinanceHedgeDirection ==
    (pc = "done" /\ proc \in {"UM", "CM"}) =>
        /\ \A i \in 1..Len(trades) :
              /\ SideSet(trades[i]._rawFills[1])
              /\ trades[i].direction = toLowerCase(trades[i]._rawFills[1].posSide)
        /\ \A k \in 1..Len(rawFills) : ~SideSet(rawFills[k]) => OpenedBy(k) = {}


----------------------------------------------------------------------------
(* What a reducing fill leaves alone *)

\* the position key each processor files a fill under
KeyOfFill(fill) ==
    CASE proc = "OKX" -> <<fill.instId, toLowerCase(fill.posSide)>>
      [] proc \in {"UM", "CM"} -> <<fill.instId, fill.posSide>>
      [] proc = "SPOT" -> <<fill.instId, "spot">>
      [] proc = "MARGIN" -> <<fill.instId, "margin">>

\* the k-th fill finds an open trade and moves against its direction
Reduces(k) ==
    /\ MapHas(FoldAfter(k - 1).openPositions, KeyOfFill(rawFills[k]))
    /\ IsClosingDirection(MapGet(FoldAfter(k - 1).openPositions, KeyOfFill(rawFills[k])),
                          rawFills[k])

\* the open trade the k-th fill finds
TradeBefore(k) == MapGet(FoldAfter(k - 1).openPositions, KeyOfFill(rawFills[k]))

\* that trade in the fold state st after the fill: still open under its key,
\* or the trade the fill has just closed
SameTradeIn(st, key, id) ==
    IF MapHas(st.openPositions, key) /\ MapGet(st.openPositions, key).id = id
    THEN MapGet(st.openPositions, key)
    ELSE Last(st.closedTrades)
TradeAfterFill(k) ==
    SameTradeIn(FoldAfter(k), KeyOfFill(rawFills[k]), TradeBefore(k).id)

EntryKept(before, after) ==
    /\ after.id = before.id
    /\ after.averageEntryPrice = before.averageEntryPrice
    /\ after.totalSize = before.totalSize
    /\ after.totalValue = before.totalValue

\* the fields a reducing fill may change
ReduceFields ==
    {"realizedPnl", "_currentPositionSize", "_closingSizeAccumulator",
     "_closingValueAccumulator", "totalCommission", "timeline", "tradeIds",
     "orderIds", "_rawFills"}

\* what a fill that closes the trade sets besides
CloseFields == {"status", "exitTime", "durationMs", "averageExitPrice", "netPnl",
                "pnlPercentage"}

OnlyChanged(before, after, fields) ==
    \A f \in DOMAIN before : f \notin fields => after[f] = before[f]

\* C26: in every variant a reducing fill leaves the trade's averageEntryPrice,
\* totalSize and totalValue unchanged; it changes only realizedPnl, the
\* running size, the closing accumulators, commission, timeline and
\* identifiers, and what closing the trade sets when it closes it
C26_ReduceKeepsEntry ==
    pc = "done" =>
        \A k \in 1..Len(rawFills) :
            Reduces(k) =>
                /\ EntryKept(TradeBefore(k), TradeAfterFill(k))
                /\ OnlyChanged(TradeBefore(k), TradeAfterFill(k),
                               IF TradeAfterFill(k).status = "closed"
                               THEN ReduceFields \cup CloseFields ELSE ReduceFields)

\* buy 1 @ p, then a sell of the whole size or two sells of a part of it
C26_Witness ==
    /\ pc = "done" /\ Len(rawFills) = 3
    /\ Reduces(2) /\ Reduces(3)
    /\ TradeAfterFill(2).status = "open"
    /\ TradeAfterFill(3).status = "closed"
    /\ TradeAfterFill(3).totalSize = TradeBefore(2).totalSize
    /\ FGt(TradeBefore(2).averageEntryPrice, Zero)


----------------------------------------------------------------------------
(* One event per fill *)

\* the fill is an orphan in the fold state st: its key has no open trade and
\* the processor does not take it for an opening fill
IsOrphanIn(st, fill) ==
    /\ ~MapHas(st.openPositions, KeyOfFill(fill))
    /\ CASE proc = "OKX" -> isReduceOnly(fill)
         [] proc \in {"UM", "CM"} -> ~isOpeningFill(fill)
         [] proc = "SPOT" -> toLowerCase(fill.side) # "buy"
         [] proc = "MARGIN" -> FALSE
IsOrphan(k) == IsOrphanIn(FoldAfter(k - 1), rawFills[k])

\* the timeline of the trade open under the key, if any
TimelineAt(st, key) ==
    IF MapHas(st.openPositions, key) THEN MapGet(st.openPositions, key).timeline
    ELSE <<>>

\* the trade a fill was folded into, in the fold state after it: the one it
\* found open under the key in the state before, or else the one it opened
TradeFoldedInto(before, after, key) ==
    IF MapHas(before.openPositions, key)
    THEN SameTradeIn(after, key, MapGet(before.openPositions, key).id)
    ELSE IF MapHas(after.openPositions, key) THEN MapGet(after.openPositions, key)
         ELSE Last(after.closedTrades)

\* the fill reversed a margin position: the trade it found is closed and
\* another one is open under the key
IsFlip(before, after, key) ==
    /\ MapHas(before.openPositions, key)
    /\ MapHas(after.openPositions, key)
    /\ MapGet(after.openPositions, key).id # MapGet(before.openPositions, key).id

RECURSIVE EventCount(_)
EventCount(ts) ==
    IF ts = <<>> THEN 0 ELSE Len(Head(ts).timeline) + EventCount(Tail(ts))

NoDuplicates(ids) == \A i, j \in 1..Len(ids) : ids[i] = ids[j] => i = j

\* the trade's timeline is the timeline before with one event of the fill
\* appended, and the trade has the fill's id and order id
OneEventAppended(trade, before, fill) ==
    /\ Len(trade.timeline) = Len(before) + 1
    /\ \A i \in 1..Len(before) :
          /\ trade.timeline[i].tradeId = before[i].tradeId
          /\ trade.timeline[i].size = before[i].size
    /\ Last(trade.timeline).tradeId = <<fill.tradeId>>
    /\ Last(trade.timeline).orderId = <<fill.ordId>>
    /\ Contains(trade.tradeIds, fill.tradeId)
    /\ Contains(trade.orderIds, fill.ordId)
    /\ NoDuplicates(trade.orderIds)

\* the fill took the fold from the state before to the state after by one
\* event on its trade, or as an orphan by nothing
FoldedByOneEvent(before, after, fill) ==
    IF IsOrphanIn(before, fill) THEN after = before
    ELSE /\ OneEventAppended(TradeFoldedInto(before, after, KeyOfFill(fill)),
                             TimelineAt(before, KeyOfFill(fill)), fill)
         /\ IsFlip(before, after, KeyOfFill(fill)) =>
               OneEventAppended(MapGet(after.openPositions, KeyOfFill(fill)), <<>>, fill)
         /\ EventCount(allTradesOf(after))
               = EventCount(allTradesOf(before))
                     + (IF IsFlip(before, after, KeyOfFill(fill)) THEN 2 ELSE 1)

RECURSIVE EveryFillOneEvent(_, _)
EveryFillOneEvent(st, k) ==
    \/ k > Len(rawFills)
    \/ /\ FoldedByOneEvent(st, ProcessFill(proc, st, rawFills[k], instrumentDetails),
                           rawFills[k])
       /\ EveryFillOneEvent(ProcessFill(proc, st, rawFills[k], instrumentDetails), k + 1)

\* C27: in every variant each fill folded into a trade appends exactly one
\* event to that trade's timeline and records its fill id on the trade, an
\* order id is in the trade's orderIds once however many fills share it, and
\* a skipped orphan fill appends nothing
C27_OneEventPerFill == pc = "done" => EveryFillOneEvent(EmptyFold, 1)

\* three fills folded into one trade, the first two of one order
C27_Witness ==
    /\ pc = "done" /\ Len(rawFills) = 3
    /\ \A k \in 1..3 : ~IsOrphan(k)
    /\ rawFills[1].ordId = rawFills[2].ordId
    /\ Len(FoldAfter(3).openPositions) = 1
    /\ Len(FoldAfter(3).openPositions[1].trade.timeline) = 3
    /\ Len(FoldAfter(3).openPositions[1].trade.orderIds) = 2

\* an orphan is skipped
C27_OrphanWitness ==
    /\ pc = "done" /\ Len(rawFills) = 3
    /\ IsOrphan(1) /\ ~IsOrphan(2) /\ IsOrphan(3)
    /\ FoldAfter(3) = FoldAfter(2)

----------------------------------------------------------------------------
(* The average entry price after an increasing fill *)

\* the variants with price-times-size cost: USDT-margined futures, spot, margin
CostVariants == {"OKX", "UM", "SPOT", "MARGIN"}

IsIncrease(event) == event.action \in {"OPEN", "ADD"}

\* the cumulative size and cost of the increasing events of a timeline
RECURSIVE IncreasedSize(_)
IncreasedSize(timeline) ==
    IF timeline = <<>> THEN Zero
    ELSE FAdd(IF IsIncrease(Head(timeline)) THEN Head(timeline).size ELSE Zero,
              IncreasedSize(Tail(timeline)))
RECURSIVE IncreasedCost(_)
IncreasedCost(timeline) ==
    IF timeline = <<>> THEN Zero
    ELSE FAdd(IF IsIncrease(Head(timeline))
              THEN FMul(Head(timeline).size, Head(timeline).price) ELSE Zero,
              IncreasedCost(Tail(timeline)))

\* the trade's entry price is its cumulative cost over its cumulative size
AverageIsCostOverSize(trade) ==
    /\ trade.totalSize = IncreasedSize(trade.timeline)
    /\ trade.totalValue = IncreasedCost(trade.timeline)
    /\ FMul(trade.averageEntryPrice, trade.totalSize) = trade.totalValue

\* the trade open under the fill's key, if the fill has just increased it
IncreasedBy(st, fill) ==
    /\ MapHas(st.openPositions, KeyOfFill(fill))
    /\ IsIncrease(Last(MapGet(st.openPositions, KeyOfFill(fill)).timeline))
    /\ Last(MapGet(st.openPositions, KeyOfFill(fill)).timeline).tradeId = <<fill.tradeId>>

RECURSIVE AverageAfterEveryIncrease(_, _)
AverageAfterEveryIncrease(st, k) ==
    \/ k > Len(rawFills)
    \/ /\ IncreasedBy(ProcessFill(proc, st, rawFills[k], instrumentDetails), rawFills[k]) =>
              AverageIsCostOverSize(
                  MapGet(ProcessFill(proc, st, rawFills[k], instrumentDetails).openPositions,
                         KeyOfFill(rawFills[k])))
       /\ AverageAfterEveryIncrease(
              ProcessFill(proc, st, rawFills[k], instrumentDetails), k + 1)

\* C28: in the linear, spot and margin variants, after every increasing fill,
\* an ADD after reductions included, averageEntryPrice * totalSize =
\* totalValue, with totalSize and totalValue the cumulative size and cost of
\* the trade's increasing fills
C28_AverageEntryPrice ==
    (pc = "done" /\ proc \in CostVariants) => AverageAfterEveryIncrease(EmptyFold, 1)

\* the same without margin
C28_LinearSpotAverageEntryPrice ==
    (pc = "done" /\ proc \in CostVariants \ {"MARGIN"}) =>
        AverageAfterEveryIncrease(EmptyFold, 1)

\* an increase, a reduction, an increase at another price
C28_LinearSpotWitness ==
    /\ pc = "done" /\ proc \in CostVariants \ {"MARGIN"} /\ Len(rawFills) = 3
    /\ Len(FoldAfter(3).openPositions) = 1
    /\ Len(FoldAfter(3).openPositions[1].trade.timeline) = 3
    /\ FoldAfter(3).openPositions[1].trade.timeline[2].action = "REDUCE"
    /\ FoldAfter(3).openPositions[1].trade.timeline[3].action = "ADD"
    /\ rawFills[3].fillPx # rawFills[1].fillPx

\* on margin the totals are cumulative all the same
MarginTotalsCumulative(st) ==
    \A i \in 1..Len(st.openPositions) :
        /\ st.openPositions[i].trade.totalSize
              = IncreasedSize(st.openPositions[i].trade.timeline)
        /\ st.openPositions[i].trade.totalValue
              = IncreasedCost(st.openPositions[i].trade.timeline)
C28_MarginTotals ==
    (pc = "done" /\ proc = "MARGIN") =>
        \A k \in 1..Len(rawFills) : MarginTotalsCumulative(FoldAfter(k))


----------------------------------------------------------------------------
(* The groups of aggregateEvents *)

\* the events in the order aggregateEvents goes through them
SortedEvents == StableSort(executionEvents, "event")

SameSide(a, b) ==
    \/ a = b
    \/ {a, b} = {"OPEN", "ADD"}
    \/ {a, b} = {"REDUCE", "CLOSE"}

\* the i-th sorted event belongs to the group of the event before it
JoinsGroup(i) ==
    /\ SortedEvents[i].timestamp - SortedEvents[i - 1].timestamp < mergeWindowMs
    /\ SameSide(SortedEvents[i].action, SortedEvents[i - 1].action)

\* the places where a group starts, and the group that starts at a place
GroupStarts == {1} \cup {i \in 2..Len(SortedEvents) : ~JoinsGroup(i)}
GroupEnd(start) ==
    IF \E i \in GroupStarts : i > start
    THEN (CHOOSE i \in GroupStarts :
              i > start /\ \A j \in GroupStarts : j > start => i <= j) - 1
    ELSE Len(SortedEvents)
GroupAt(start) == SubSeq(SortedEvents, start, GroupEnd(start))

\* the number of the group that starts at a place
GroupNumber(start) == Cardinality({i \in GroupStarts : i <= start})

\* C29: aggregateEvents, after sorting by (timestamp, fill id), puts an event
\* in the current group exactly when it is less than mergeWindowMs after the
\* last event of the group and the two actions are equal, OPEN and ADD, or
\* REDUCE and CLOSE; otherwise the event starts a new group
C29_GroupingRule ==
    (timelinePc = "once" /\ Len(executionEvents) >= 2) =>
        /\ Len(aggregated) = Cardinality(GroupStarts)
        /\ \A start \in GroupStarts :
              /\ aggregated[GroupNumber(start)].tradeId = JoinIds(GroupAt(start), "tradeId")
              /\ aggregated[GroupNumber(start)].timestamp = SortedEvents[start].timestamp
              /\ aggregated[GroupNumber(start)].size
                    = GroupTotal(GroupAt(start), "size")

\* a chain of three events one tick apart is one group though it spans the
\* window
C29_ChainWitness ==
    /\ timelinePc = "once" /\ Len(executionEvents) = 3
    /\ SortedEvents[3].timestamp - SortedEvents[1].timestamp = mergeWindowMs
    /\ SortedEvents[2].timestamp - SortedEvents[1].timestamp < mergeWindowMs
    /\ SortedEvents[3].timestamp - SortedEvents[2].timestamp < mergeWindowMs
    /\ SortedEvents[1].action = "OPEN" /\ SortedEvents[2].action = "ADD"
    /\ SortedEvents[3].action = "OPEN"
    /\ Len(aggregated) = 1

\* two events of one action a window apart are two groups
C29_SplitWitness ==
    /\ timelinePc = "once" /\ Len(executionEvents) = 2
    /\ SortedEvents[2].timestamp - SortedEvents[1].timestamp = mergeWindowMs
    /\ SortedEvents[1].action = SortedEvents[2].action
    /\ Len(aggregated) = 2


----------------------------------------------------------------------------
(* The event a group collapses to *)

RECURSIVE SumOf(_, _)
SumOf(events, what) ==
    IF events = <<>> THEN Zero
    ELSE FAdd(CASE what = "size" -> Head(events).size
                [] what = "fee" -> Head(events).fee
                [] what = "value" -> FMul(Head(events).price, Head(events).size),
              SumOf(Tail(events), what))

HasAction(group, action) == \E i \in 1..Len(group) : group[i].action = action

\* the event is what the group collapses to
CollapsedTo(event, group) ==
    /\ event.size = SumOf(group, "size")
    /\ event.fee = SumOf(group, "fee")
    /\ event.price = (IF SumOf(group, "size") = Zero THEN Zero
                      ELSE FDiv(SumOf(group, "value"), SumOf(group, "size")))
    /\ event.timestamp = group[1].timestamp
    /\ event.action = (IF HasAction(group, "OPEN") THEN "OPEN"
                       ELSE IF HasAction(group, "CLOSE") THEN "CLOSE"
                       ELSE group[1].action)

\* C30: a group of two or more events collapses to one event with the summed
\* size and fee, the size-weighted average price (0 when the total size is
\* 0), the first member's timestamp and the action OPEN if a member is OPEN,
\* else CLOSE if a member is CLOSE, else the first member's; aggregation
\* leaves the total size and the total fee of the timeline unchanged
C30_MergedGroup ==
    (timelinePc = "once" /\ Len(executionEvents) >= 2) =>
        /\ Len(aggregated) = Cardinality(GroupStarts)
        /\ \A start \in GroupStarts :
              Len(GroupAt(start)) >= 2 =>
                  CollapsedTo(aggregated[GroupNumber(start)], GroupAt(start))
        /\ SumOf(aggregated, "size") = SumOf(executionEvents, "size")
        /\ SumOf(aggregated, "fee") = SumOf(executionEvents, "fee")

\* ADD 1 @ 1, OPEN 2 @ 2 and ADD 0 @ 2 collapse to OPEN 3 @ 5/3
C30_Witness ==
    /\ timelinePc = "once" /\ Len(executionEvents) = 3 /\ Len(aggregated) = 1
    /\ SortedEvents[1].action = "ADD" /\ SortedEvents[2].action = "OPEN"
    /\ aggregated[1].action = "OPEN"
    /\ aggregated[1].size = Num(3)
    /\ aggregated[1].price = FDiv(Num(5), Num(3))

\* two events of size 0 collapse to an event of price 0
C30_ZeroWitness ==
    /\ timelinePc = "once" /\ Len(executionEvents) = 2 /\ Len(aggregated) = 1
    /\ aggregated[1].size = Zero /\ aggregated[1].price = Zero
    /\ executionEvents[1].price # Zero


----------------------------------------------------------------------------
(* One aggregator for every variant *)

\* what a timeline shows: when, what, how much, at which price and fee
Shape(timeline) ==
    [i \in 1..Len(timeline) |->
        [timestamp |-> timeline[i].timestamp, action |-> timeline[i].action,
         size |-> timeline[i].size, price |-> timeline[i].price,
         fee |-> timeline[i].fee]]

\* the per-fill events of the k-th returned trade
PerFillEvents(k) == foldedTrades(proc, rawFills, instrumentDetails)[k].timeline

\* C31: in every variant the timeline of each returned trade is the shared
\* aggregator (sort by (timestamp, fill id), 60000 ms window, OPEN/ADD and
\* REDUCE/CLOSE mergeable) applied to the trade's per-fill events
C31_SharedAggregator ==
    pc = "done" =>
        \A k \in 1..Len(trades) :
            Shape(trades[k].timeline) = Shape(aggregateEvents(PerFillEvents(k)))

\* the same on the processors that build their trades with a trade builder
C31_BuilderAggregator ==
    (pc = "done" /\ proc \in {"OKX", "UM"}) =>
        \A k \in 1..Len(trades) :
            Shape(trades[k].timeline) = Shape(aggregateEvents(PerFillEvents(k)))
C31_BuilderWitness ==
    /\ pc = "done" /\ proc \in {"OKX", "UM"} /\ Len(trades) = 1
    /\ Len(PerFillEvents(1)) = 3
    /\ PerFillEvents(1)[1].action = "OPEN" /\ PerFillEvents(1)[2].action = "ADD"
    /\ PerFillEvents(1)[3].action = "REDUCE"
    /\ Len(trades[1].timeline) = 2
    /\ trades[1].timeline[1].action = "OPEN"

\* the coin-margined, spot and margin processors merge events of one action
\* and REDUCE with CLOSE, in array order
C31_LocalAggregator ==
    (pc = "done" /\ proc \in {"CM", "SPOT", "MARGIN"}) =>
        \A k \in 1..Len(trades) :
            trades[k].timeline = BinanceAggregateTimelineEvents(PerFillEvents(k))


----------------------------------------------------------------------------
(* The signed running size of a margin trade *)

\* the running size has the sign of the direction
SignedAsDirection(trade) ==
    IF trade.direction = "long" THEN FLe(Zero, trade._currentPositionSize)
    ELSE FLe(trade._currentPositionSize, Zero)

\* the trade continues the trade before: same direction, the fills before
\* and one more
Continues(after, before) ==
    /\ after.direction = before.direction
    /\ after.id = before.id
    /\ Len(after._rawFills) = Len(before._rawFills) + 1
    /\ SubSeq(after.tradeIds, 1, Len(before.tradeIds)) = before.tradeIds

\* from the fold state before to the state after one fill, no margin trade
\* changes its direction: a closed trade stays as it is, and the open trade
\* either continues, or is closed with its direction and, on a reversal,
\* replaced by a new trade of one fill
DirectionKept(before, after, key) ==
    /\ \A i \in 1..Len(before.closedTrades) :
          after.closedTrades[i] = before.closedTrades[i]
    /\ MapHas(before.openPositions, key) =>
          IF Len(after.closedTrades) = Len(before.closedTrades)
          THEN /\ MapHas(after.openPositions, key)
               /\ Continues(MapGet(after.openPositions, key),
                            MapGet(before.openPositions, key))
          ELSE /\ Len(after.closedTrades) = Len(before.closedTrades) + 1
               /\ Continues(Last(after.closedTrades), MapGet(before.openPositions, key))
               /\ Last(after.closedTrades).status = "closed"
               /\ MapHas(after.openPositions, key) =>
                     /\ Len(MapGet(after.openPositions, key)._rawFills) = 1
                     /\ MapGet(after.openPositions, key).direction
                           # MapGet(before.openPositions, key).direction

AllSigned(st) ==
    /\ \A i \in 1..Len(st.closedTrades) : SignedAsDirection(st.closedTrades[i])
    /\ \A i \in 1..Len(st.openPositions) : SignedAsDirection(st.openPositions[i].trade)

RECURSIVE SignedAtEveryStep(_, _)
SignedAtEveryStep(st, k) ==
    \/ k > Len(rawFills)
    \/ /\ AllSigned(ProcessFill(proc, st, rawFills[k], instrumentDetails))
       /\ DirectionKept(st, ProcessFill(proc, st, rawFills[k], instrumentDetails),
                        KeyOfFill(rawFills[k]))
       /\ SignedAtEveryStep(ProcessFill(proc, st, rawFills[k], instrumentDetails), k + 1)

\* C32: in the margin processor the running size is >= 0 for a long trade and
\* <= 0 for a short trade at every step, and no trade changes its direction:
\* a reversal ends the trade and starts a new one
C32_SignedPositionSize ==
    (pc = "done" /\ proc = "MARGIN") => SignedAtEveryStep(EmptyFold, 1)

\* a short reversed into a long that is then reduced
C32_Witness ==
    /\ pc = "done" /\ proc = "MARGIN" /\ Len(rawFills) = 3
    /\ Len(FoldAfter(1).openPositions) = 1
    /\ FoldAfter(1).openPositions[1].trade.direction = "short"
    /\ FLt(FoldAfter(1).openPositions[1].trade._currentPositionSize, Zero)
    /\ Len(FoldAfter(2).closedTrades) = 1 /\ Len(FoldAfter(2).openPositions) = 1
    /\ FoldAfter(2).closedTrades[1].direction = "short"
    /\ FoldAfter(2).openPositions[1].trade.direction = "long"
    /\ Len(FoldAfter(3).openPositions) = 1
    /\ Len(FoldAfter(3).openPositions[1].trade.timeline) = 2
    /\ FGt(FoldAfter(3).openPositions[1].trade._currentPositionSize, Zero)

----------------------------------------------------------------------------
(* Closed trades are final *)

\* the fields of a trade that its fills determine, its timeline and ids too
FillFields(t) ==
    [derived |-> FillDerived(t), totalValue |-> t.totalValue,
     closingSize |-> t._closingSizeAccumulator,
     closingValue |-> t._closingValueAccumulator,
     timeline |-> t.timeline, tradeIds |-> t.tradeIds, orderIds |-> t.orderIds,
     rawFills |-> t._rawFills]

\* the closed trades of the state before are the first closed trades of the
\* state after, unchanged
ClosedKept(before, after) ==
    /\ Len(after.closedTrades) >= Len(before.closedTrades)
    /\ \A i \in 1..Len(before.closedTrades) :
          FillFields(after.closedTrades[i]) = FillFields(before.closedTrades[i])

\* the map has one entry per position key, all of them open trades, and the
\* closed set holds closed trades
OneOpenPerKey(st) ==
    /\ \A i, j \in 1..Len(st.openPositions) :
          st.openPositions[i].key = st.openPositions[j].key => i = j
    /\ \A i \in 1..Len(st.openPositions) : st.openPositions[i].trade.status = "open"
    /\ \A i \in 1..Len(st.closedTrades) : st.closedTrades[i].status = "closed"

RECURSIVE ClosedAreFinal(_, _)
ClosedAreFinal(st, k) ==
    \/ k > Len(rawFills)
    \/ /\ ClosedKept(st, ProcessFill(proc, st, rawFills[k], instrumentDetails))
       /\ OneOpenPerKey(ProcessFill(proc, st, rawFills[k], instrumentDetails))
       /\ ClosedAreFinal(ProcessFill(proc, st, rawFills[k], instrumentDetails), k + 1)

\* C33: once a trade is in the closed set no later fill of the batch changes
\* its fill-derived fields, and at every step of the fold there is at most
\* one open trade per position key
C33_ClosedTradesFinal ==
    pc = "done" =>
        /\ ClosedAreFinal(EmptyFold, 1)
        /\ \A i \in 1..Len(FoldAfter(Len(rawFills)).closedTrades) :
              FillDerived(trades[i]) = FillDerived(FoldAfter(Len(rawFills)).closedTrades[i])

\* a trade is closed by the second fill and a fill for its key follows
C33_Witness ==
    /\ pc = "done" /\ Len(rawFills) = 3
    /\ Len(FoldAfter(2).closedTrades) = 1
    /\ FoldAfter(2).openPositions = <<>>
    /\ KeyOfFill(rawFills[3]) = KeyOfFill(rawFills[2])
    /\ Len(FoldAfter(3).openPositions) = 1
    /\ Len(trades) = 2


----------------------------------------------------------------------------
(* The shape of a returned timeline *)

ActionsOf(timeline) == [i \in 1..Len(timeline) |-> timeline[i].action]

\* OPEN first and nowhere else
OpensOnce(actions) ==
    /\ Len(actions) >= 1
    /\ actions[1] = "OPEN"
    /\ \A i \in 2..Len(actions) : actions[i] # "OPEN"

\* CLOSE exactly when the trade is closed, and then last and nowhere else
ClosesLast(actions, status) ==
    /\ (\E i \in 1..Len(actions) : actions[i] = "CLOSE") <=> (status = "closed")
    /\ \A i \in 1..Len(actions) : actions[i] = "CLOSE" => i = Len(actions)

\* the last fill of a closed trade reduced it to zero within the tolerance,
\* and its timestamp is the exit time
ClosedByLastFill(trade, events) ==
    /\ Last(events).action = "CLOSE"
    /\ Last(events).tradeId = <<Last(trade._rawFills).tradeId>>
    /\ IsClosingDirection(trade, Last(trade._rawFills))
    /\ FLe(FAbs(trade._currentPositionSize), Tolerance)
    /\ trade.exitTime = Last(trade._rawFills).ts.v
    /\ trade.durationMs = trade.exitTime - trade.entryTime
    /\ trade.durationMs >= 0

TimelineShape(trade, events) ==
    /\ OpensOnce(ActionsOf(trade.timeline))
    /\ ClosesLast(ActionsOf(trade.timeline), trade.status)
    /\ trade.status = "closed" => ClosedByLastFill(trade, events)

\* C34: in the timeline of every returned trade the first event is OPEN and
\* no later one is; a CLOSE is there exactly when the trade is CLOSED, is
\* then the last event and comes from the reducing fill that brought the
\* running size to zero; exitTime is that fill's timestamp and durationMs =
\* exitTime - entryTime >= 0
C34_TimelineShape ==
    pc = "done" => \A k \in 1..Len(trades) : TimelineShape(trades[k], PerFillEvents(k))

\* the same for batches whose fills have distinct timestamps
C34_DistinctTimestamps ==
    (pc = "done"
     /\ \A i, j \in 1..Len(rawFills) : rawFills[i].ts = rawFills[j].ts => i = j) =>
        \A k \in 1..Len(trades) : TimelineShape(trades[k], PerFillEvents(k))
C34_DistinctWitness ==
    /\ pc = "done" /\ Len(rawFills) = 2 /\ Len(trades) = 1
    /\ \A i, j \in 1..Len(rawFills) : rawFills[i].ts = rawFills[j].ts => i = j
    /\ trades[1].status = "closed"
    /\ Len(trades[1]._rawFills) = 2
    /\ Last(trades[1].timeline).action = "CLOSE"
    /\ trades[1].durationMs > 0


----------------------------------------------------------------------------
(* Size conservation *)

\* opened size = reduced size + remaining size, within the tolerance
SizeConserved(trade) ==
    FLe(FAbs(FSub(trade.totalSize,
                  FAdd(trade._closingSizeAccumulator, FAbs(trade._currentPositionSize)))),
        Tolerance)

AllConserved(st) ==
    /\ \A i \in 1..Len(st.closedTrades) : SizeConserved(st.closedTrades[i])
    /\ \A i \in 1..Len(st.openPositions) : SizeConserved(st.openPositions[i].trade)

RECURSIVE ConservedAtEveryStep(_, _)
ConservedAtEveryStep(st, k) ==
    \/ k > Len(rawFills)
    \/ /\ AllConserved(ProcessFill(proc, st, rawFills[k], instrumentDetails))
       /\ ConservedAtEveryStep(ProcessFill(proc, st, rawFills[k], instrumentDetails), k + 1)

\* C35: for every trade of every variant, after every fill, totalSize =
\* _closingSizeAccumulator + |_currentPositionSize| within the 1e-9
\* tolerance; a CLOSED trade's reduced size is then its opened size
C35_SizeConservation ==
    pc = "done" =>
        /\ ConservedAtEveryStep(EmptyFold, 1)
        /\ \A k \in 1..Len(trades) :
              /\ SizeConserved(trades[k])
              /\ trades[k].status = "closed" =>
                    FLe(FAbs(FSub(trades[k].totalSize, trades[k]._closingSizeAccumulator)),
                        Tolerance)

\* a trade opened, added to and reduced, with size left
C35_Witness ==
    /\ pc = "done" /\ Len(rawFills) = 3 /\ Len(trades) = 1
    /\ trades[1].status = "open"
    /\ Len(trades[1]._rawFills) = 3
    /\ FGt(trades[1]._closingSizeAccumulator, Zero)
    /\ FGt(FAbs(trades[1]._currentPositionSize), Tolerance)
    /\ FGt(trades[1].totalSize, FAbs(trades[1]._currentPositionSize))


----------------------------------------------------------------------------
(* The fee of a margin fill *)

RECURSIVE TotalCommission(_)
TotalCommission(result) ==
    IF result = <<>> THEN Zero
    ELSE FAdd(Head(result).totalCommission, TotalCommission(Tail(result)))

RECURSIVE TotalFees(_)
TotalFees(fills) ==
    IF fills = <<>> THEN Zero
    ELSE FAdd(parseFloat(Head(fills).fee), TotalFees(Tail(fills)))

\* some fill of the batch reversed a position
SomeFlip ==
    \E k \in 1..Len(rawFills) :
        IsFlip(FoldAfter(k - 1), FoldAfter(k), KeyOfFill(rawFills[k]))

\* C36: in the margin processor the fee of every fill is charged once: the
\* totalCommission of the trades of a batch add up to the fees of its fills,
\* also when a flip splits a fill into a closing and an opening part
C36_FeeChargedOnce ==
    (pc = "done" /\ proc = "MARGIN") => TotalCommission(trades) = TotalFees(rawFills)

\* the same for batches without a flip
C36_FeeChargedOnceWithoutFlip ==
    (pc = "done" /\ proc = "MARGIN" /\ ~SomeFlip) =>
        TotalCommission(trades) = TotalFees(rawFills)
C36_WithoutFlipWitness ==
    /\ pc = "done" /\ proc = "MARGIN" /\ ~SomeFlip
    /\ Len(rawFills) = 3 /\ Len(trades) = 2
    /\ TotalCommission(trades) = Num(3)


----------------------------------------------------------------------------
(* TradeSyncService on its own: syncTrades calls, each split at its awaits,
   interleaved with resetSyncState and with the settings tab, which changes
   the exchange and has the container replace the data provider *)

MaxServiceTs == 2
MaxServiceSyncs == 2

Exchanges == {"OKX", "BINANCE"}

\* TradeSyncService.getLastSyncTimestamp
getLastSyncTimestamp(s) ==
    IF s.exchange = "OKX" THEN s.lastSyncTimestampOkx ELSE s.lastSyncTimestampBinance

\* TradeSyncService.setLastSyncTimestamp: the field of the exchange selected
\* now, and the legacy field
setLastSyncTimestamp(s, ts) ==
    IF s.exchange = "OKX"
    THEN [s EXCEPT !.lastSyncTimestampOkx = ts, !.lastSyncTimestamp = ts]
    ELSE [s EXCEPT !.lastSyncTimestampBinance = ts, !.lastSyncTimestamp = ts]

\* whether syncTrades, past its awaits, writes a new timestamp
advances(result, s) ==
    Len(result) > 0 /\ maxTimestamp(result) > getLastSyncTimestamp(s)

\* the tail of syncTrades without its comparison with the stored timestamp
settingsAfterSync_Always(result, s) ==
    IF Len(result) > 0 THEN setLastSyncTimestamp(s, maxTimestamp(result)) ELSE s

\* the settings after the tail of syncTrades
settingsAfterSync(result, s) ==
    IF advances(result, s) THEN setLastSyncTimestamp(s, maxTimestamp(result)) ELSE s

\* this.dataProvider after the tail of syncTrades
providerAfterSync(result, s, provider) ==
    IF advances(result, s)
    THEN [provider EXCEPT !.lastSyncTimestamp = maxTimestamp(result)]
    ELSE provider

\* a trade as far as syncTrades reads it: the timestamps of its fills
ServiceTrade(tss) == [_rawFills |-> [i \in DOMAIN tss |-> [ts |-> Str(tss[i])]]]

ServiceTs == 1..MaxServiceTs

\* what getStandardizedTrades may resolve to
ReturnedTrades ==
    {<<>>, <<ServiceTrade(<<>>)>>}
    \cup {<<ServiceTrade(<<a>>)>> : a \in ServiceTs}
    \cup {<<ServiceTrade(<<a, b>>)>> : a \in ServiceTs, b \in ServiceTs}
    \cup {<<ServiceTrade(<<a>>), ServiceTrade(<<b>>)>> : a \in ServiceTs, b \in ServiceTs}

Returned(outcome, call) ==
    [n |-> syncLog.n + 1, outcome |-> outcome, exchange |-> call.provider,
     standardizedTrades |-> call.standardizedTrades]

InitService ==
    /\ proc = "OKX"
    /\ mode = "service"
    /\ instrumentDetails = <<>>
    /\ rawFills = <<>>
    /\ rawBills = <<>>
    /\ rawPositionRisks = <<>>
    /\ trades = <<>>
    /\ pc = "idle"
    /\ IdleTimeline
    /\ NewProcessor
    /\ NewProvider
    /\ NoParserCall
    /\ NoMerge
    /\ NoDownloads
    /\ settings \in {[DefaultSettings EXCEPT !.exchange = e] : e \in Exchanges}
    /\ dataProvider = createDataProvider(settings)
    /\ syncCalls = <<>>
    /\ syncLog = NoSyncLog

notService == <<batchVars, timelineVars, processorVars, providerVars, parserVars, noteVars, queueVars>>

\* syncTrades up to its first await: getStandardizedTrades of the provider the
\* service holds now
SyncTradesCalled ==
    /\ syncLog.n + Len(syncCalls) < MaxServiceSyncs
    /\ syncCalls' = Append(syncCalls, [provider |-> dataProvider.exchange,
                                       at |-> "getStandardizedTrades",
                                       standardizedTrades |-> <<>>])
    /\ UNCHANGED <<settings, dataProvider, syncLog, notService>>

\* getStandardizedTrades resolves: on to the await of createArchiveNotes
TradesFetched(i, result) ==
    /\ syncCalls[i].at = "getStandardizedTrades"
    /\ syncCalls' = [syncCalls EXCEPT ![i] = [@ EXCEPT !.at = "createArchiveNotes",
                                                       !.standardizedTrades = result]]
    /\ UNCHANGED <<settings, dataProvider, syncLog, notService>>

\* getStandardizedTrades rejects: the catch block
FetchFailed(i) ==
    /\ syncCalls[i].at = "getStandardizedTrades"
    /\ syncCalls' = RemoveAt(syncCalls, i)
    /\ syncLog' = Returned("failed", syncCalls[i])
    /\ UNCHANGED <<settings, dataProvider, notService>>

\* vault.create or vault.modify rejects in createArchiveNotes: the catch block
NotesFailed(i) ==
    /\ syncCalls[i].at = "createArchiveNotes"
    /\ Len(syncCalls[i].standardizedTrades) > 0
    /\ syncCalls' = RemoveAt(syncCalls, i)
    /\ syncLog' = Returned("failed", syncCalls[i])
    /\ UNCHANGED <<settings, dataProvider, notService>>

\* createArchiveNotes resolves: the update of the last-sync timestamp, with
\* the settings and the provider as they are now
NotesWritten(i) ==
    /\ syncCalls[i].at = "createArchiveNotes"
    /\ settings' = settingsAfterSync(syncCalls[i].standardizedTrades, settings)
    /\ dataProvider' = providerAfterSync(syncCalls[i].standardizedTrades, settings, dataProvider)
    /\ syncCalls' = RemoveAt(syncCalls, i)
    /\ syncLog' = Returned("synced", syncCalls[i])
    /\ UNCHANGED notService

\* TradeSyncService.resetSyncState
ResetSyncState ==
    /\ settings' = setLastSyncTimestamp(settings, 0)
    /\ dataProvider' = [dataProvider EXCEPT !.lastSyncTimestamp = 0]
    /\ UNCHANGED <<syncCalls, syncLog, notService>>

\* the exchange dropdown of the settings tab, up to its await of saveSettings
ExchangeSelected(value) ==
    /\ value # settings.exchange
    /\ settings' = [settings EXCEPT !.exchange = value]
    /\ UNCHANGED <<dataProvider, syncCalls, syncLog, notService>>

\* ServiceContainer.updateDataProvider: a new provider, handed to the service
\* by setDataProvider
UpdateDataProvider ==
    /\ dataProvider' = createDataProvider(settings)
    /\ dataProvider' # dataProvider
    /\ UNCHANGED <<settings, syncCalls, syncLog, notService>>

NextService ==
    \/ SyncTradesCalled
    \/ \E i \in DOMAIN syncCalls, result \in ReturnedTrades : TradesFetched(i, result)
    \/ \E i \in DOMAIN syncCalls : FetchFailed(i)
    \/ \E i \in DOMAIN syncCalls : NotesFailed(i)
    \/ \E i \in DOMAIN syncCalls : NotesWritten(i)
    \/ ResetSyncState
    \/ \E value \in Exchanges : ExchangeSelected(value)
    \/ UpdateDataProvider

SpecService == InitService /\ [][NextService]_vars


----------------------------------------------------------------------------
(* C37: the last-sync timestamp under syncTrades and resetSyncState *)

\* the stored last-sync timestamp of an exchange
StoredTimestamp(s, e) ==
    IF e = "OKX" THEN s.lastSyncTimestampOkx ELSE s.lastSyncTimestampBinance

\* the fill timestamps among the trades a sync returned
FillTimestamps(result) ==
    {parseInt(result[i]._rawFills[j].ts) :
        <<i, j>> \in {<<i, j>> \in (DOMAIN result) \X (1..2) : j \in DOMAIN result[i]._rawFills}}

Greatest(S) == IF S = {} THEN 0 ELSE CHOOSE m \in S : \A x \in S : x <= m

Larger(a, b) == IF a > b THEN a ELSE b

\* a syncTrades call returned in this step
SyncReturned(outcome) == syncLog'.n = syncLog.n + 1 /\ syncLog'.outcome = outcome

NeverDecreasesButByReset ==
    \A e \in Exchanges :
        StoredTimestamp(settings', e) < StoredTimestamp(settings, e) =>
            /\ ResetSyncState
            /\ e = settings.exchange
            /\ StoredTimestamp(settings', e) = 0

SuccessSetsMaximum ==
    SyncReturned("synced") =>
        /\ settings'.exchange = settings.exchange
        /\ getLastSyncTimestamp(settings') =
               Larger(getLastSyncTimestamp(settings),
                      Greatest(FillTimestamps(syncLog'.standardizedTrades)))

FailureKeepsTimestamp == SyncReturned("failed") => settings' = settings

\* C37: under any interleaving of syncTrades calls, resets and changes of the
\* exchange, the stored last-sync timestamp of an exchange decreases only in a
\* resetSyncState step, which sets that of the active exchange to 0; a sync
\* that returns successfully leaves the active exchange's timestamp at the
\* larger of its previous value and the greatest fill timestamp among the
\* returned trades; a sync that fails while fetching or while writing notes
\* leaves the settings as they were.
C37_LastSyncTimestamp ==
    [][NeverDecreasesButByReset /\ SuccessSetsMaximum /\ FailureKeepsTimestamp]_vars

\* a second sync returned successfully with older fills only, after the first
\* had stored the greatest timestamp: the stored value was kept
C37_Witness ==
    /\ syncLog.n = 2
    /\ syncLog.outcome = "synced"
    /\ Greatest(FillTimestamps(syncLog.standardizedTrades)) = 1
    /\ getLastSyncTimestamp(settings) = MaxServiceTs
    /\ dataProvider.exchange = settings.exchange
    /\ syncLog.exchange = settings.exchange

\* a sync failed and the timestamp of an earlier sync is still stored
C37_FailureWitness ==
    /\ syncLog.n = 2
    /\ syncLog.outcome = "failed"
    /\ Len(syncLog.standardizedTrades) > 0
    /\ getLastSyncTimestamp(settings) = 1


----------------------------------------------------------------------------
(* C40: a sync that returns after the exchange was switched *)

OtherSettingsKept ==
    \A e \in Exchanges :
        e # syncLog'.exchange => StoredTimestamp(settings', e) = StoredTimestamp(settings, e)

OtherProviderKept ==
    dataProvider.exchange # syncLog'.exchange =>
        dataProvider'.lastSyncTimestamp = dataProvider.lastSyncTimestamp

\* C40: a syncTrades call that returns successfully changes the stored
\* last-sync timestamp of no exchange but the one whose provider fetched its
\* trades, and does not change the lastSyncTimestamp of a provider of another
\* exchange, whatever was switched while the call was awaiting.
C40_OwnExchangeOnly ==
    [][SyncReturned("synced") => OtherSettingsKept /\ OtherProviderKept]_vars

\* the same for the syncs during which nothing was switched: the settings and
\* the provider are those of the exchange that fetched
C40_OwnExchangeWhenNotSwitched ==
    [][(/\ SyncReturned("synced")
        /\ settings.exchange = syncLog'.exchange
        /\ dataProvider.exchange = syncLog'.exchange)
       => OtherSettingsKept /\ OtherProviderKept]_vars

\* a sync of the selected exchange returned and advanced its timestamp
C40_NotSwitchedWitness ==
    /\ syncLog.outcome = "synced"
    /\ syncLog.exchange = settings.exchange
    /\ dataProvider.exchange = settings.exchange
    /\ getLastSyncTimestamp(settings) = MaxServiceTs
    /\ dataProvider.lastSyncTimestamp = MaxServiceTs
    /\ \A e \in Exchanges : e # settings.exchange => StoredTimestamp(settings, e) = 0


\* the timestamp of OKX fills stored as the last sync of Binance, in the
\* settings and in the Binance provider
C40_CrossedState ==
    /\ syncLog.n = 1
    /\ syncLog.outcome = "synced"
    /\ syncLog.exchange = "OKX"
    /\ settings.exchange = "BINANCE"
    /\ settings.lastSyncTimestampBinance = MaxServiceTs
    /\ settings.lastSyncTimestampOkx = 0
    /\ dataProvider = [exchange |-> "BINANCE", lastSyncTimestamp |-> MaxServiceTs]


----------------------------------------------------------------------------
(* KLineDataService on its own: the download queue and its dispatcher, under
   addToQueue calls, the settling of processTask promises and the start and
   stop of the backfill loop *)

MAX_CONCURRENT_DOWNLOADS == 3

MaxTasks == 5
MaxSymbols == 2

TaskIds == 1..MaxTasks

\* queue, activeDownloads and the pending processTask promises, as one value
\* the methods pass on
Downloads == [queue |-> queue, activeDownloads |-> activeDownloads, running |-> running]

\* a dispatcher that starts tasks without looking at loopActive
RECURSIVE runDispatcher_Always(_, _)
runDispatcher_Always(active, s) ==
    IF s.activeDownloads < MAX_CONCURRENT_DOWNLOADS /\ Len(s.queue) > 0
    THEN runDispatcher_Always(active, [queue |-> Tail(s.queue),
                                       activeDownloads |-> s.activeDownloads + 1,
                                       running |-> s.running \cup {Head(s.queue).id}])
    ELSE s

\* KLineDataService.runDispatcher: nothing while the loop is inactive, else
\* queue.shift() and activeDownloads++ while a slot is free and a task waits
RECURSIVE runDispatcher(_, _)
runDispatcher(active, s) ==
    IF ~active THEN s
    ELSE IF s.activeDownloads < MAX_CONCURRENT_DOWNLOADS /\ Len(s.queue) > 0
         THEN runDispatcher(active, [queue |-> Tail(s.queue),
                                     activeDownloads |-> s.activeDownloads + 1,
                                     running |-> s.running \cup {Head(s.queue).id}])
         ELSE s

\* KLineDataService.addToQueue: unshift a priority task, push another, then
\* the dispatcher
addToQueue(active, s, task) ==
    runDispatcher(active, [s EXCEPT !.queue = IF task.priority THEN <<task>> \o @
                                              ELSE Append(@, task)])

\* symbols.forEach(s => this.addToQueue(s, '30m', undefined, false)) for n
\* symbols, numbered from first + 1 on
RECURSIVE addSymbols(_, _, _, _)
addSymbols(active, s, first, n) ==
    IF n = 0 THEN s
    ELSE addSymbols(active, addToQueue(active, s, [id |-> first + 1, priority |-> FALSE]),
                    first + 1, n - 1)

\* a settling that gives the slot back only when the task succeeded
settled_FailureKeepsSlot(active, s, id, error) ==
    runDispatcher(active, [s EXCEPT !.activeDownloads = IF error THEN @ ELSE @ - 1,
                                    !.running = @ \ {id}])

\* processTask(task).finally(...): processTask catches the error of a failed
\* task, so either way activeDownloads-- and the dispatcher
settled(active, s, id, error) ==
    runDispatcher(active, [s EXCEPT !.activeDownloads = @ - 1, !.running = @ \ {id}])

InitBackfill ==
    /\ proc = "OKX"
    /\ mode = "backfill"
    /\ instrumentDetails = <<>>
    /\ rawFills = <<>>
    /\ rawBills = <<>>
    /\ rawPositionRisks = <<>>
    /\ trades = <<>>
    /\ pc = "idle"
    /\ IdleTimeline
    /\ NewProcessor
    /\ NewProvider
    /\ NoParserCall
    /\ NoMerge
    /\ NoService
    /\ NoDownloads

notQueue == <<batchVars, timelineVars, processorVars, providerVars, parserVars, noteVars, serviceVars>>

Becomes(s) ==
    /\ queue' = s.queue
    /\ activeDownloads' = s.activeDownloads
    /\ running' = s.running

\* KLineDataService.startBackfillLoop, with n symbols in the vault
StartBackfillLoop(n) ==
    /\ ~loopActive
    /\ nextTask + n <= MaxTasks
    /\ loopActive' = TRUE
    /\ Becomes(addSymbols(TRUE, runDispatcher(TRUE, Downloads), nextTask, n))
    /\ nextTask' = nextTask + n
    /\ UNCHANGED <<taskErrors, notQueue>>

\* KLineDataService.stopBackfillLoop
StopBackfillLoop ==
    /\ loopActive' = FALSE
    /\ UNCHANGED <<queue, activeDownloads, running, nextTask, taskErrors, notQueue>>

\* an addToQueue call of getCachedKLines or of backgroundSync
AddToQueue(priority) ==
    /\ nextTask < MaxTasks
    /\ Becomes(addToQueue(loopActive, Downloads, [id |-> nextTask + 1, priority |-> priority]))
    /\ nextTask' = nextTask + 1
    /\ UNCHANGED <<loopActive, taskErrors, notQueue>>

\* the processTask promise of a running task settles after a sync without error
TaskCompleted(id) ==
    /\ id \in running
    /\ Becomes(settled(loopActive, Downloads, id, FALSE))
    /\ UNCHANGED <<loopActive, nextTask, taskErrors, notQueue>>

\* the processTask promise of a running task settles after readCacheFile or
\* backgroundSync threw and the catch block logged it
TaskFailed(id) ==
    /\ id \in running
    /\ Becomes(settled(loopActive, Downloads, id, TRUE))
    /\ taskErrors' = taskErrors \cup {id}
    /\ UNCHANGED <<loopActive, nextTask, notQueue>>

NextBackfill ==
    \/ \E n \in 0..MaxSymbols : StartBackfillLoop(n)
    \/ StopBackfillLoop
    \/ \E priority \in BOOLEAN : AddToQueue(priority)
    \/ \E id \in TaskIds : TaskCompleted(id)
    \/ \E id \in TaskIds : TaskFailed(id)

SpecBackfill == InitBackfill /\ [][NextBackfill]_vars

\* every started task finishes in the end, successfully or with an error
EveryTaskFinishes == \A id \in TaskIds : WF_vars(TaskCompleted(id) \/ TaskFailed(id))

SpecBackfillFair == InitBackfill /\ [][NextBackfill]_vars /\ EveryTaskFinishes


----------------------------------------------------------------------------
(* C38: the limit of the concurrent downloads *)

ActiveWithinLimit ==
    /\ activeDownloads \in 0..MAX_CONCURRENT_DOWNLOADS
    /\ activeDownloads = Cardinality(running)

\* the tasks started in this step
StartedNow == running' \ running

StartedOnlyWhileActive == StartedNow # {} => loopActive'

\* C38: in every reachable state the number of active downloads is between 0
\* and MAX_CONCURRENT_DOWNLOADS and counts the pending tasks, and a step that
\* starts a task is a step of an active loop.
C38_ConcurrencyLimit == []ActiveWithinLimit /\ [][StartedOnlyWhileActive]_vars

\* all slots taken while two tasks wait in an active loop
C38_Witness ==
    /\ loopActive
    /\ activeDownloads = MAX_CONCURRENT_DOWNLOADS
    /\ Len(queue) = 2

\* tasks wait with all slots free because the loop is inactive
C38_InactiveWitness ==
    /\ ~loopActive
    /\ activeDownloads = 0
    /\ Len(queue) = 2
    /\ taskErrors # {}


----------------------------------------------------------------------------
(* C39: every queued task is started *)

Queued(id) == \E i \in DOMAIN queue : queue[i].id = id

\* an active loop leaves no slot free while a task waits
NoIdleSlot == loopActive /\ queue # <<>> => activeDownloads = MAX_CONCURRENT_DOWNLOADS

\* a task leaves the queue only by being started
LeavesQueueStarted == \A id \in TaskIds : Queued(id) /\ ~Queued(id)' => id \in StartedNow

\* a failed task gives its slot back: it is no longer counted
FailedReleasesSlot ==
    \A id \in TaskIds :
        TaskFailed(id) => id \notin running' /\ activeDownloads' = Cardinality(running')

\* the start of the loop starts the waiting tasks, as far as slots are free
StartRunsWaiting ==
    ~loopActive /\ loopActive' =>
        \A i \in DOMAIN queue :
            i <= MAX_CONCURRENT_DOWNLOADS - activeDownloads => queue[i].id \in StartedNow

\* a waiting task is started while the loop stays active
EventuallyStarted ==
    \A id \in TaskIds : (Queued(id) /\ loopActive) ~> (id \in running \/ ~loopActive)

C39_StartWitness ==
    /\ loopActive
    /\ running = {1, 2}
    /\ nextTask = 2
    /\ queue = <<>>

====
